---- MODULE Spec2Model ----
(***************************************************************************)
(* Text extraction of the meal-plan service: the ingredient line parser    *)
(* (ingredient_service.py) and the recipe page extractor                   *)
(* (recipe_service.py).                                                    *)
(*                                                                         *)
(* A Python str is a sequence of characters, each character a string of    *)
(* one code point.  The vulgar-fraction glyphs are written by code point:  *)
(* "U+00BD" is the one character 1/2-glyph.  Optional[str] is a sequence   *)
(* or None.                                                                *)
(***************************************************************************)
EXTENDS Integers, Sequences, FiniteSets, TLC

VARIABLES
    ingredient_string,  \* request.ingredient_string of the parse_ingredient call
    parts,              \* what line 119 (_parse_ingredient_parts) produced in that call
    response,           \* the ParseIngredientResponse the call returned
    exception,          \* the exception the call let escape to its caller, or None
    norm_text,          \* argument of the _normalize_fractions call
    norm_result,        \* its return value
    recipe_url,         \* request.url of the parse_recipe call
    site,               \* what is behind that url: the document, or the failure met
    recipe_response,    \* the ParseRecipeResponse the call returned
    recipe_exception,   \* the exception the call let escape to its caller, or None
    call,               \* the helper function called on its own, "none" when none is
    argument,           \* its argument
    returned,           \* its return value
    attributes,         \* the attributes the service objects share: the two tables
    working,            \* the working state of each concurrent call, None without them
    pc                  \* "request" before the call, "done" after it

vars == <<ingredient_string, parts, response, exception, norm_text, norm_result,
          recipe_url, site, recipe_response, recipe_exception,
          call, argument, returned, attributes, working, pc>>

None == <<"None">>

\* Python truthiness of an Optional[str]: None and "" are falsy
Truthy(x) == x # None /\ x # <<>>

-----------------------------------------------------------------------------
(* Characters and str methods *)

DigitChars == <<"0", "1", "2", "3", "4", "5", "6", "7", "8", "9">>
UpperChars == <<"A", "B", "C", "D", "E", "F", "G", "H", "I", "J", "K", "L", "M",
                "N", "O", "P", "Q", "R", "S", "T", "U", "V", "W", "X", "Y", "Z">>
LowerChars == <<"a", "b", "c", "d", "e", "f", "g", "h", "i", "j", "k", "l", "m",
                "n", "o", "p", "q", "r", "s", "t", "u", "v", "w", "x", "y", "z">>

\* regex \d
IsDigit(c) == \E i \in 1..Len(DigitChars) : DigitChars[i] = c
DigitVal(c) == (CHOOSE i \in 1..Len(DigitChars) : DigitChars[i] = c) - 1
\* regex \s and the characters str.strip() / str.split() remove
IsSpace(c) == c \in {" ", "\t", "\n", "\r"}

\* str.lower() on one character
LowerChar(c) ==
    IF \E i \in 1..Len(UpperChars) : UpperChars[i] = c
    THEN LowerChars[CHOOSE i \in 1..Len(UpperChars) : UpperChars[i] = c]
    ELSE c
\* str.lower()
lower(s) == [i \in 1..Len(s) |-> LowerChar(s[i])]

\* s[i:] of Python for a 0-based i (the characters from position i+1 on)
From(s, i) == SubSeq(s, i + 1, Len(s))

\* str.lstrip(): drops the leading whitespace
RECURSIVE lstrip(_)
lstrip(s) == IF s # <<>> /\ IsSpace(Head(s)) THEN lstrip(Tail(s)) ELSE s

\* str.rstrip(chars): drops the trailing characters that are in chars
RECURSIVE rstrip(_, _)
rstrip(s, chars) ==
    IF s # <<>> /\ s[Len(s)] \in chars THEN rstrip(SubSeq(s, 1, Len(s) - 1), chars) ELSE s

\* str.strip()
strip(s) == rstrip(lstrip(s), {" ", "\t", "\n", "\r"})

\* str.split(): the maximal runs of non-whitespace characters, in order
RECURSIVE WordEnd(_, _)
WordEnd(s, i) == IF i <= Len(s) /\ ~IsSpace(s[i]) THEN WordEnd(s, i + 1) ELSE i
RECURSIVE split(_)
split(s) ==
    LET t == lstrip(s)
        e == WordEnd(t, 1)
    IN  IF t = <<>> THEN <<>> ELSE <<SubSeq(t, 1, e - 1)>> \o split(From(t, e - 1))

\* ' '.join(words[k:]) for a 0-based k
RECURSIVE join(_, _)
join(words, k) ==
    IF k >= Len(words) THEN <<>>
    ELSE IF k = Len(words) - 1 THEN words[k + 1]
    ELSE words[k + 1] \o <<" ">> \o join(words, k + 1)

\* str.replace(old, new) for a one-character old: every occurrence is replaced
RECURSIVE replace_first(_, _, _)
replace_first(text, old, new) ==
    IF text = <<>> THEN <<>>
    ELSE IF Head(text) = old THEN new \o Tail(text)
    ELSE <<Head(text)>> \o replace_first(Tail(text), old, new)

RECURSIVE replace(_, _, _)
replace(text, old, new) ==
    IF text = <<>> THEN <<>>
    ELSE (IF Head(text) = old THEN new ELSE <<Head(text)>>) \o replace(Tail(text), old, new)

-----------------------------------------------------------------------------
(* IngredientService: the tables *)

\* The 18 glyphs with their ASCII forms, in the dict's (insertion) order
UNICODE_FRACTIONS == <<
    <<"U+00BC", <<"1", "/", "4">>>>,
    <<"U+00BD", <<"1", "/", "2">>>>,
    <<"U+00BE", <<"3", "/", "4">>>>,
    <<"U+2150", <<"1", "/", "7">>>>,
    <<"U+2151", <<"1", "/", "9">>>>,
    <<"U+2152", <<"1", "/", "1", "0">>>>,
    <<"U+2153", <<"1", "/", "3">>>>,
    <<"U+2154", <<"2", "/", "3">>>>,
    <<"U+2155", <<"1", "/", "5">>>>,
    <<"U+2156", <<"2", "/", "5">>>>,
    <<"U+2157", <<"3", "/", "5">>>>,
    <<"U+2158", <<"4", "/", "5">>>>,
    <<"U+2159", <<"1", "/", "6">>>>,
    <<"U+215A", <<"5", "/", "6">>>>,
    <<"U+215B", <<"1", "/", "8">>>>,
    <<"U+215C", <<"3", "/", "8">>>>,
    <<"U+215D", <<"5", "/", "8">>>>,
    <<"U+215E", <<"7", "/", "8">>>>
>>

UNITS == {
    \* Volume
    <<"c", "u", "p">>, <<"c", "u", "p", "s">>, <<"c">>,
    <<"t", "a", "b", "l", "e", "s", "p", "o", "o", "n">>, <<"t", "a", "b", "l", "e", "s", "p", "o", "o", "n", "s">>, <<"t", "b", "s", "p">>, <<"t", "b", "s">>, <<"t", "b">>,
    <<"t", "e", "a", "s", "p", "o", "o", "n">>, <<"t", "e", "a", "s", "p", "o", "o", "n", "s">>, <<"t", "s", "p">>, <<"t", "s">>,
    <<"f", "l", "u", "i", "d", " ", "o", "u", "n", "c", "e">>, <<"f", "l", "u", "i", "d", " ", "o", "u", "n", "c", "e", "s">>, <<"f", "l", " ", "o", "z">>, <<"f", "l", "o", "z">>,
    <<"p", "i", "n", "t">>, <<"p", "i", "n", "t", "s">>, <<"p", "t">>,
    <<"q", "u", "a", "r", "t">>, <<"q", "u", "a", "r", "t", "s">>, <<"q", "t">>,
    <<"g", "a", "l", "l", "o", "n">>, <<"g", "a", "l", "l", "o", "n", "s">>, <<"g", "a", "l">>,
    <<"m", "i", "l", "l", "i", "l", "i", "t", "e", "r">>, <<"m", "i", "l", "l", "i", "l", "i", "t", "e", "r", "s">>, <<"m", "l">>,
    <<"l", "i", "t", "e", "r">>, <<"l", "i", "t", "e", "r", "s">>, <<"l">>,
    \* Weight
    <<"p", "o", "u", "n", "d">>, <<"p", "o", "u", "n", "d", "s">>, <<"l", "b">>, <<"l", "b", "s">>,
    <<"o", "u", "n", "c", "e">>, <<"o", "u", "n", "c", "e", "s">>, <<"o", "z">>,
    <<"g", "r", "a", "m">>, <<"g", "r", "a", "m", "s">>, <<"g">>,
    <<"k", "i", "l", "o", "g", "r", "a", "m">>, <<"k", "i", "l", "o", "g", "r", "a", "m", "s">>, <<"k", "g">>,
    \* Other
    <<"p", "i", "n", "c", "h">>, <<"p", "i", "n", "c", "h", "e", "s">>,
    <<"d", "a", "s", "h">>, <<"d", "a", "s", "h", "e", "s">>,
    <<"c", "l", "o", "v", "e">>, <<"c", "l", "o", "v", "e", "s">>,
    <<"s", "l", "i", "c", "e">>, <<"s", "l", "i", "c", "e", "s">>,
    <<"p", "i", "e", "c", "e">>, <<"p", "i", "e", "c", "e", "s">>,
    <<"c", "a", "n">>, <<"c", "a", "n", "s">>,
    <<"p", "a", "c", "k", "a", "g", "e">>, <<"p", "a", "c", "k", "a", "g", "e", "s">>, <<"p", "k", "g">>,
    <<"b", "u", "n", "c", "h">>, <<"b", "u", "n", "c", "h", "e", "s">>,
    <<"h", "e", "a", "d">>, <<"h", "e", "a", "d", "s">>,
    <<"s", "p", "r", "i", "g">>, <<"s", "p", "r", "i", "g", "s">>,
    <<"s", "t", "a", "l", "k">>, <<"s", "t", "a", "l", "k", "s">>,
    <<"s", "t", "i", "c", "k">>, <<"s", "t", "i", "c", "k", "s">>,
    <<"w", "h", "o", "l", "e">>,
    <<"s", "m", "a", "l", "l">>, <<"m", "e", "d", "i", "u", "m">>, <<"l", "a", "r", "g", "e">>
}

-----------------------------------------------------------------------------
(* IngredientService._normalize_fractions *)

\* the loop over UNICODE_FRACTIONS.items() from entry i on
RECURSIVE NormalizeFrom(_, _)
NormalizeFrom(text, i) ==
    IF i > Len(UNICODE_FRACTIONS) THEN text
    ELSE NormalizeFrom(replace(text, UNICODE_FRACTIONS[i][1], UNICODE_FRACTIONS[i][2]), i + 1)

_normalize_fractions(text) == NormalizeFrom(text, 1)

-----------------------------------------------------------------------------
(* Numbers: float() of a decimal literal, Fraction(), and str() of the total *)

\* int() of a run of digits
RECURSIVE ToInt(_)
ToInt(ds) == IF ds = <<>> THEN 0 ELSE ToInt(SubSeq(ds, 1, Len(ds) - 1)) * 10 + DigitVal(ds[Len(ds)])

RECURSIVE Pow10(_)
Pow10(k) == IF k = 0 THEN 1 ELSE 10 * Pow10(k - 1)

\* position of the first occurrence of character c in s, 0 when there is none
IndexOf(s, c) ==
    IF \E i \in 1..Len(s) : s[i] = c
    THEN CHOOSE i \in 1..Len(s) : s[i] = c /\ \A j \in 1..(i - 1) : s[j] # c
    ELSE 0

\* float(lit) for lit matching \d+(?:\.\d+)?, as the exact quotient n/d
FloatOf(lit) ==
    LET dot == IndexOf(lit, ".")
    IN  IF dot = 0 THEN [n |-> ToInt(lit), d |-> 1]
        ELSE [n |-> ToInt(SubSeq(lit, 1, dot - 1) \o From(lit, dot)), d |-> Pow10(Len(lit) - dot)]

\* Fraction(lit) for lit matching \d+/\d+; a zero denominator raises ZeroDivisionError
FractionRaises(lit) == ToInt(From(lit, IndexOf(lit, "/"))) = 0
FractionOf(lit) ==
    LET slash == IndexOf(lit, "/")
    IN  [n |-> ToInt(SubSeq(lit, 1, slash - 1)), d |-> ToInt(From(lit, slash))]

\* total += x
Plus(a, b) == [n |-> a.n * b.d + b.n * a.d, d |-> a.d * b.d]

\* str(int)
RECURSIVE IntStr(_)
IntStr(k) == IF k < 10 THEN <<DigitChars[k + 1]>> ELSE IntStr(k \div 10) \o <<DigitChars[(k % 10) + 1]>>

\* The digits str(float) prints after the point.  A float carries 15 to 17
\* significant digits; the expansion of r/d is cut after FloatDigits places.
FloatDigits == 16
RECURSIVE FracStr(_, _, _)
FracStr(r, d, k) ==
    IF r = 0 \/ k = 0 THEN <<>>
    ELSE <<DigitChars[((r * 10) \div d) + 1]>> \o FracStr((r * 10) % d, d, k - 1)

\* str(total) if total != int(total) else str(int(total))
AmountStrAlwaysFloat(total) ==
    IntStr(total.n \div total.d) \o <<".">> \o
        (IF total.n % total.d = 0 THEN <<"0">> ELSE FracStr(total.n % total.d, total.d, FloatDigits))

AmountStr(total) ==
    IF total.n % total.d = 0 THEN IntStr(total.n \div total.d)
    ELSE IntStr(total.n \div total.d) \o <<".">> \o FracStr(total.n % total.d, total.d, FloatDigits)

-----------------------------------------------------------------------------
(* quantity_pattern:                                                        *)
(* ^(?:(\d+(?:\.\d+)?)\s+)?(\d+/\d+|\d+(?:\.\d+)?(?:\s*-\s*\d+(?:\.\d+)?)?)  *)
(* Positions are 1-based; an "End" is the position just past the match and  *)
(* equals the start when the sub-pattern does not match there.  An operator *)
(* that needs an intermediate result several times receives it as its last  *)
(* argument from the operator defined after it.                             *)

\* \d+ (greedy)
RECURSIVE DigitsEnd(_, _)
DigitsEnd(s, i) == IF i <= Len(s) /\ IsDigit(s[i]) THEN DigitsEnd(s, i + 1) ELSE i

\* \s* (greedy)
RECURSIVE SpacesEnd(_, _)
SpacesEnd(s, i) == IF i <= Len(s) /\ IsSpace(s[i]) THEN SpacesEnd(s, i + 1) ELSE i

\* the end e of a sub-pattern tried at i when it matched there, otherwise other
MatchedOr(i, e, other) == IF e > i THEN e ELSE other

\* \d+(?:\.\d+)?, the \d+ having ended at e
NumberTail(s, i, e) ==
    IF e > i /\ e <= Len(s) /\ s[e] = "." THEN MatchedOr(e + 1, DigitsEnd(s, e + 1), e) ELSE e
NumberEnd(s, i) == NumberTail(s, i, DigitsEnd(s, i))

\* \d+/\d+, the first \d+ having ended at e
FractionTail(s, i, e) ==
    IF e > i /\ e <= Len(s) /\ s[e] = "/" THEN MatchedOr(e + 1, DigitsEnd(s, e + 1), i) ELSE i
FractionEnd(s, i) == FractionTail(s, i, DigitsEnd(s, i))

\* (?:\s*-\s*\d+(?:\.\d+)?)? after a number that ended at e, the \s* having ended at dash
RangeNumber(s, e, num) == MatchedOr(num, NumberEnd(s, num), e)
RangeTail(s, e, dash) ==
    IF dash <= Len(s) /\ s[dash] = "-" THEN RangeNumber(s, e, SpacesEnd(s, dash + 1)) ELSE e
RangeEnd(s, e) == RangeTail(s, e, SpacesEnd(s, e))

\* group 2: the fraction alternative (ended at f) first, then number with optional range
NumberOrRange(s, i, e) == IF e > i THEN RangeEnd(s, e) ELSE i
Group2Tail(s, i, f) == IF f > i THEN f ELSE NumberOrRange(s, i, NumberEnd(s, i))
Group2End(s, i) == Group2Tail(s, i, FractionEnd(s, i))

\* re.match(quantity_pattern, s): group(1), group(2) and end() (0-based, as Python).
\* e1: end of group 1 tried at 1; sp: end of the \s+ after it; g2: end of group 2 tried
\* at sp; g: end of group 2 tried at 1, which is what matches when group 1 is given up.
QuantityGroups(s, e1, sp, g2, g) ==
    IF e1 > 1 /\ sp > e1 /\ g2 > sp
    THEN [matched |-> TRUE, whole_part |-> SubSeq(s, 1, e1 - 1),
          frac_or_num |-> SubSeq(s, sp, g2 - 1), end |-> g2 - 1]
    ELSE IF g > 1
    THEN [matched |-> TRUE, whole_part |-> None, frac_or_num |-> SubSeq(s, 1, g - 1), end |-> g - 1]
    ELSE [matched |-> FALSE, whole_part |-> None, frac_or_num |-> None, end |-> 0]
QuantitySpaces(s, e1, sp) == QuantityGroups(s, e1, sp, Group2End(s, sp), Group2End(s, 1))
QuantityWhole(s, e1) == QuantitySpaces(s, e1, SpacesEnd(s, e1))
QuantityMatch(s) == QuantityWhole(s, NumberEnd(s, 1))

-----------------------------------------------------------------------------
(* IngredientService._parse_ingredient_parts *)

\* s has word (lower case) at position i, compared as re.IGNORECASE compares
HasWordAt(s, i, word) ==
    /\ i + Len(word) - 1 <= Len(s)
    /\ \A k \in 1..Len(word) : LowerChar(s[i + k - 1]) = word[k]

\* re.match(r'^a\s+(pinch|dash)', text, re.IGNORECASE): group(1) lower-cased and
\* the position just past the match; kw is where the \s+ ended
PinchKeyword(text, kw) ==
    IF HasWordAt(text, 1, <<"a">>) /\ kw > 2 /\ HasWordAt(text, kw, <<"p", "i", "n", "c", "h">>)
    THEN [matched |-> TRUE, keyword |-> <<"p", "i", "n", "c", "h">>, end |-> kw + 5]
    ELSE IF HasWordAt(text, 1, <<"a">>) /\ kw > 2 /\ HasWordAt(text, kw, <<"d", "a", "s", "h">>)
    THEN [matched |-> TRUE, keyword |-> <<"d", "a", "s", "h">>, end |-> kw + 4]
    ELSE [matched |-> FALSE, keyword |-> None, end |-> 1]
PinchMatch(text) == PinchKeyword(text, SpacesEnd(text, 2))

\* (.+): the characters up to the end of the line
RECURSIVE DotEnd(_, _)
DotEnd(s, i) == IF i <= Len(s) /\ s[i] # "\n" THEN DotEnd(s, i + 1) ELSE i

\* re.match(r'^a\s+(pinch|dash)\s+of\s+(.+)', text, re.IGNORECASE): group(1) and group(2).
\* m: the match of the pattern's head; of: end of the \s+ after it; rest: end of the
\* \s+ after "of"; e: end of (.+)
PinchOfGroups(text, m, of, rest, e) ==
    IF m.matched /\ of > m.end /\ HasWordAt(text, of, <<"o", "f">>) /\ rest > of + 2 /\ e > rest
    THEN [matched |-> TRUE, keyword |-> m.keyword, group2 |-> SubSeq(text, rest, e - 1)]
    ELSE [matched |-> FALSE, keyword |-> None, group2 |-> None]
PinchOfRest(text, m, of, rest) == PinchOfGroups(text, m, of, rest, DotEnd(text, rest))
PinchOfWord(text, m, of) == PinchOfRest(text, m, of, SpacesEnd(text, of + 2))
PinchOfHead(text, m) == PinchOfWord(text, m, SpacesEnd(text, m.end))
PinchOfMatch(text) == PinchOfHead(text, PinchMatch(text))

\* Lines 220-223: re.sub(r'^of\s+', '', text, flags=re.IGNORECASE), then the name
NameOf(cleaned) == IF cleaned # <<>> THEN strip(cleaned) ELSE None
WithoutOf(text, e) == IF HasWordAt(text, 1, <<"o", "f">>) /\ e > 3 THEN From(text, e - 1) ELSE text
CleanName(text) == NameOf(WithoutOf(text, SpacesEnd(text, 3)))

\* Lines 160-163 with the remainder passed through the name cleanup
PinchPartsCleanName(text, match) ==
    IF match.matched
    THEN [raised |-> FALSE, amount |-> <<"1">>, unit |-> match.keyword,
          name |-> CleanName(strip(match.group2))]
    ELSE [raised |-> FALSE, amount |-> <<"1">>, unit |-> <<"p", "i", "n", "c", "h">>,
          name |-> strip(From(text, 2))]

\* Lines 160-163 with the keyword used as unit and left out of the name when no
\* ' of <X>' follows
PinchPartsKeywordUnit(text, match) ==
    IF match.matched
    THEN [raised |-> FALSE, amount |-> <<"1">>, unit |-> match.keyword, name |-> strip(match.group2)]
    ELSE [raised |-> FALSE, amount |-> <<"1">>, unit |-> PinchMatch(text).keyword,
          name |-> strip(From(text, PinchMatch(text).end - 1))]

\* Lines 160-163: the parts of the "a pinch" / "a dash" special case
PinchParts(text, match) ==
    IF match.matched
    THEN [raised |-> FALSE, amount |-> <<"1">>, unit |-> match.keyword, name |-> strip(match.group2)]
    ELSE [raised |-> FALSE, amount |-> <<"1">>, unit |-> <<"p", "i", "n", "c", "h">>,
          name |-> strip(From(text, 2))]
PinchCase(text) == PinchParts(text, PinchOfMatch(text))

\* total after "if whole_part: total += float(whole_part)"
WholeTotal(whole_part) == IF Truthy(whole_part) THEN FloatOf(whole_part) ELSE [n |-> 0, d |-> 1]

\* Lines 171-194 with the range taken for a number
QuantityPartsRangeAsNumber(text, match) ==
    IF ~match.matched THEN [raised |-> FALSE, amount |-> None, text |-> text]
    ELSE IF IndexOf(match.frac_or_num, "/") > 0
    THEN IF FractionRaises(match.frac_or_num) THEN [raised |-> TRUE, amount |-> None, text |-> text]
         ELSE [raised |-> FALSE,
               amount |-> AmountStr(Plus(WholeTotal(match.whole_part), FractionOf(match.frac_or_num))),
               text   |-> strip(From(text, match.end))]
    ELSE [raised |-> FALSE,
          amount |-> AmountStr(Plus(WholeTotal(match.whole_part),
                         FloatOf(SubSeq(match.frac_or_num, 1, NumberEnd(match.frac_or_num, 1) - 1)))),
          text   |-> strip(From(text, match.end))]

\* Lines 171-194: amount and remaining text for the match of line 170; raised when
\* Fraction() raises ZeroDivisionError
QuantityParts(text, match) ==
    IF ~match.matched THEN [raised |-> FALSE, amount |-> None, text |-> text]
    ELSE IF IndexOf(match.frac_or_num, "/") > 0
    THEN IF FractionRaises(match.frac_or_num) THEN [raised |-> TRUE, amount |-> None, text |-> text]
         ELSE [raised |-> FALSE,
               amount |-> AmountStr(Plus(WholeTotal(match.whole_part), FractionOf(match.frac_or_num))),
               text   |-> strip(From(text, match.end))]
    ELSE IF IndexOf(match.frac_or_num, "-") > 0
    THEN [raised |-> FALSE, amount |-> strip(match.frac_or_num), text |-> strip(From(text, match.end))]
    ELSE [raised |-> FALSE,
          amount |-> AmountStr(Plus(WholeTotal(match.whole_part), FloatOf(match.frac_or_num))),
          text   |-> strip(From(text, match.end))]

\* Lines 169-194: the quantity
ExtractQuantity(text) == QuantityParts(text, QuantityMatch(strip(text)))

Punctuation == {".", ",", ";"}
SizeDescriptors == {<<"s", "m", "a", "l", "l">>, <<"m", "e", "d", "i", "u", "m">>, <<"l", "a", "r", "g", "e">>}

\* Lines 201-218 with a two-word unit consuming one word only
UnitPartsConsumesOne(text, words, first_word, two_words) ==
    IF Len(words) > 1 /\ two_words \in UNITS
    THEN [unit |-> two_words, text |-> strip(join(words, 1))]
    ELSE IF first_word \in UNITS \/ (Len(words) > 1 /\ first_word \in SizeDescriptors)
    THEN [unit |-> first_word, text |-> strip(join(words, 1))]
    ELSE [unit |-> None, text |-> text]

\* Lines 201-218 with the unit reported as the line writes it
UnitPartsAsWritten(text, words, first_word, two_words) ==
    IF Len(words) > 1
    THEN IF two_words \in UNITS THEN [unit |-> two_words, text |-> strip(join(words, 2))]
         ELSE IF first_word \in UNITS THEN [unit |-> words[1], text |-> strip(join(words, 1))]
         ELSE IF first_word \in SizeDescriptors
         THEN [unit |-> words[1], text |-> strip(join(words, 1))]
         ELSE [unit |-> None, text |-> text]
    ELSE IF first_word \in UNITS THEN [unit |-> words[1], text |-> strip(join(words, 1))]
    ELSE [unit |-> None, text |-> text]

\* Lines 201-218: unit and remaining text for the words of line 199
UnitParts(text, words, first_word, two_words) ==
    IF Len(words) > 1
    THEN IF two_words \in UNITS THEN [unit |-> two_words, text |-> strip(join(words, 2))]
         ELSE IF first_word \in UNITS THEN [unit |-> first_word, text |-> strip(join(words, 1))]
         ELSE IF first_word \in SizeDescriptors
         THEN [unit |-> first_word, text |-> strip(join(words, 1))]
         ELSE [unit |-> None, text |-> text]
    ELSE IF first_word \in UNITS THEN [unit |-> first_word, text |-> strip(join(words, 1))]
    ELSE [unit |-> None, text |-> text]

\* Lines 197-204: words, first_word and two_words
UnitWords(text, words) ==
    IF text = <<>> \/ words = <<>> THEN [unit |-> None, text |-> text]
    ELSE UnitParts(text, words, rstrip(lower(words[1]), Punctuation),
                   IF Len(words) > 1
                   THEN rstrip(lower(words[1]) \o <<" ">> \o lower(words[2]), Punctuation)
                   ELSE None)

\* Lines 196-218: the unit at the start of the remaining text
ExtractUnit(text) == UnitWords(text, split(text))

\* Lines 220-225: the returned tuple, u being what the unit extraction left
NameParts(amount, u) == [raised |-> FALSE, amount |-> amount, unit |-> u.unit, name |-> CleanName(u.text)]
\* Lines 196-225 after the quantity extraction gave q
AfterQuantity(q) ==
    IF q.raised THEN [raised |-> TRUE, amount |-> None, unit |-> None, name |-> None]
    ELSE NameParts(q.amount, ExtractUnit(q.text))
\* Lines 158-225 on the normalized text
NormalizedParts(text) ==
    IF PinchMatch(text).matched THEN PinchCase(text) ELSE AfterQuantity(ExtractQuantity(text))

\* The (amount, unit, name) tuple, or raised
_parse_ingredient_parts(ingredient_str) == NormalizedParts(_normalize_fractions(strip(ingredient_str)))

-----------------------------------------------------------------------------
(* IngredientService.parse_ingredient *)

NotCalled == [called |-> FALSE, raised |-> FALSE, amount |-> None, unit |-> None, name |-> None]
Called(p) == [called |-> TRUE, raised |-> p.raised, amount |-> p.amount, unit |-> p.unit, name |-> p.name]

\* Lines 111-115 and 135-139: the response for input that was not parsed
Unparsed(ingredient_str) ==
    [name |-> ingredient_str, amount |-> None, unit |-> None, is_well_formed |-> FALSE,
     raw_text |-> ingredient_str]

\* Lines 126-132 with is_well_formed decided by the name alone
ParsedWellFormedByName(ingredient_str, p) ==
    [name           |-> IF Truthy(p.name) THEN p.name ELSE ingredient_str,
     amount         |-> p.amount,
     unit           |-> p.unit,
     is_well_formed |-> Truthy(p.name),
     raw_text       |-> ingredient_str]

\* Lines 126-132 with the normalized text kept as raw_text
ParsedRawNormalized(ingredient_str, p) ==
    [name           |-> IF Truthy(p.name) THEN p.name ELSE ingredient_str,
     amount         |-> p.amount,
     unit           |-> p.unit,
     is_well_formed |-> Truthy(p.name) /\ (Truthy(p.amount) \/ Truthy(p.unit)),
     raw_text       |-> _normalize_fractions(ingredient_str)]

\* Lines 126-132: the response built from the parts
Parsed(ingredient_str, p) ==
    [name           |-> IF Truthy(p.name) THEN p.name ELSE ingredient_str,
     amount         |-> p.amount,
     unit           |-> p.unit,
     is_well_formed |-> Truthy(p.name) /\ (Truthy(p.amount) \/ Truthy(p.unit)),
     raw_text       |-> ingredient_str]

\* Line 109 with the empty string alone taken for too short
TooShortEmptyOnly(ingredient_str) == ingredient_str = <<>>

\* Line 109: not ingredient_str or len(ingredient_str) < 2
TooShort(ingredient_str) == ingredient_str = <<>> \/ Len(ingredient_str) < 2

\* Lines 118-139 without the except branch
TriedNoExcept(ingredient_str, p) ==
    IF p.raised
    THEN [exception |-> <<"ZeroDivisionError">>, parts |-> Called(p), response |-> Unparsed(<<>>)]
    ELSE [exception |-> None, parts |-> Called(p), response |-> Parsed(ingredient_str, p)]

\* Lines 118-139: the try block, p being what line 119 produced
Tried(ingredient_str, p) ==
    IF p.raised
    THEN [exception |-> None, parts |-> Called(p), response |-> Unparsed(ingredient_str)]
    ELSE [exception |-> None, parts |-> Called(p), response |-> Parsed(ingredient_str, p)]

\* Lines 108-139 on the stripped input
Stripped(ingredient_str) ==
    IF TooShort(ingredient_str)
    THEN [exception |-> None, parts |-> NotCalled, response |-> Unparsed(ingredient_str)]
    ELSE Tried(ingredient_str, _parse_ingredient_parts(ingredient_str))

\* Lines 94-139: what the call returns, what line 119 produced, and what escapes
parse_ingredient(s) == Stripped(strip(s))

-----------------------------------------------------------------------------
(* The class attributes of IngredientService, which every instance and every *)
(* call reads: the steps of a call on the tables as they are when it reads   *)

\* Lines 26-81: UNICODE_FRACTIONS and UNITS as the class holds them
ServiceAttributes == [UNICODE_FRACTIONS |-> UNICODE_FRACTIONS, UNITS |-> UNITS]

\* Lines 141-145 on the table the call finds: the loop from entry i on
RECURSIVE NormalizeWith(_, _, _)
NormalizeWith(table, text, i) ==
    IF i > Len(table) THEN text
    ELSE NormalizeWith(table, replace(text, table[i][1], table[i][2]), i + 1)

\* Lines 201-218 on the set of units the call finds
UnitPartsIn(units, text, words, first_word, two_words) ==
    IF Len(words) > 1
    THEN IF two_words \in units THEN [unit |-> two_words, text |-> strip(join(words, 2))]
         ELSE IF first_word \in units THEN [unit |-> first_word, text |-> strip(join(words, 1))]
         ELSE IF first_word \in SizeDescriptors
         THEN [unit |-> first_word, text |-> strip(join(words, 1))]
         ELSE [unit |-> None, text |-> text]
    ELSE IF first_word \in units THEN [unit |-> first_word, text |-> strip(join(words, 1))]
    ELSE [unit |-> None, text |-> text]
\* Lines 197-218 on the set of units the call finds
UnitWordsIn(units, text, words) ==
    IF text = <<>> \/ words = <<>> THEN [unit |-> None, text |-> text]
    ELSE UnitPartsIn(units, text, words, rstrip(lower(words[1]), Punctuation),
                     IF Len(words) > 1
                     THEN rstrip(lower(words[1]) \o <<" ">> \o lower(words[2]), Punctuation)
                     ELSE None)

\* Lines 205-216 with the unit that was found taken out of the set
UnitsAfterDiscard(units, unit) == units \ {unit}

\* Lines 205-216 test membership in UNITS and leave the set as it is
UnitsAfter(units, unit) == units

\* Lines 158-194 on the normalized text: where the call goes next, with the
\* quantity q or the parts p it has by then
NoQuantity == [raised |-> FALSE, amount |-> None, text |-> None]
AfterQuantityStep(q) ==
    IF q.raised
    THEN [next |-> "respond", q |-> q, p |-> [raised |-> TRUE, amount |-> None, unit |-> None, name |-> None]]
    ELSE [next |-> "unit", q |-> q, p |-> NotCalled]
QuantityStep(text) ==
    IF PinchMatch(text).matched
    THEN [next |-> "respond", q |-> NoQuantity, p |-> PinchCase(text)]
    ELSE AfterQuantityStep(ExtractQuantity(text))

-----------------------------------------------------------------------------
(* RecipeService: the page as the extraction sees it.                       *)
(*                                                                          *)
(* A document is what BeautifulSoup's queries return on it:                 *)
(*   og_title, og_description, meta_description: the content attribute of   *)
(*       the first such meta tag (None: no tag, or no content attribute);   *)
(*   name_text, h1_text, title_text, description_text: get_text() of the    *)
(*       first such element (None: no element);                             *)
(*   times[t]: the first element with itemprop=t: present, its datetime     *)
(*       attribute (None: no attribute) and its get_text();                 *)
(*   strings: the text nodes, in document order;                            *)
(*   recipe_ingredient: get_text() of the itemprop=recipeIngredient         *)
(*       elements, in document order;                                       *)
(*   classed: the elements that carry a class, [class, text], in order;     *)
(*   section_list: get_text() of the li elements of the list found beside   *)
(*       the first text node matching /ingredients/i (None: no such list).  *)
(* Optional[int] is a number of minutes or NoMinutes.                       *)

NoMinutes == -1
TimeTypes == {"prepTime", "cookTime", "totalTime"}
\* the time_type of the f-string patterns, lower-cased as re.IGNORECASE compares it
TimeTypeWord(time_type) ==
    CASE time_type = "prepTime" -> <<"p", "r", "e", "p", "t", "i", "m", "e">>
      [] time_type = "cookTime" -> <<"c", "o", "o", "k", "t", "i", "m", "e">>
      [] time_type = "totalTime" -> <<"t", "o", "t", "a", "l", "t", "i", "m", "e">>

\* s has exactly word at position i
HasExactAt(s, i, word) ==
    /\ i + Len(word) - 1 <= Len(s)
    /\ \A k \in 1..Len(word) : s[i + k - 1] = word[k]

\* re.search(r'(\d+)<blanks><word>', s): group(1) of the leftmost match from position i
\* on, None without a match.  blanks: \s* stands between number and word;
\* ignorecase: the word is compared as re.IGNORECASE compares it.  e is where the
\* digits that start at i end, w where the word has to start.
WordFollows(s, w, words, ignorecase) ==
    \E word \in words : IF ignorecase THEN HasWordAt(s, w, word) ELSE HasExactAt(s, w, word)
RECURSIVE SearchNumber(_, _, _, _, _)
NumberBefore(s, i, words, blanks, ignorecase, e) ==
    IF WordFollows(s, IF blanks THEN SpacesEnd(s, e) ELSE e, words, ignorecase)
    THEN SubSeq(s, i, e - 1)
    ELSE SearchNumber(s, e, words, blanks, ignorecase)
SearchNumber(s, i, words, blanks, ignorecase) ==
    IF i > Len(s) THEN None
    ELSE IF ~IsDigit(s[i]) THEN SearchNumber(s, i + 1, words, blanks, ignorecase)
    ELSE NumberBefore(s, i, words, blanks, ignorecase, DigitsEnd(s, i))

\* int(match.group(1)) if match, else the initial 0
IntOrZero(match) == IF match # None THEN ToInt(match) ELSE 0
\* total_minutes if total_minutes > 0 else None
PositiveOrNone(total_minutes) == IF total_minutes > 0 THEN total_minutes ELSE NoMinutes

\* Lines 220-246 without the check of the prefix at lines 224-225
_parse_iso_duration_any_prefix(duration) ==
    PositiveOrNone(IntOrZero(SearchNumber(From(duration, 2), 1, {<<"H">>}, FALSE, FALSE)) * 60
                   + IntOrZero(SearchNumber(From(duration, 2), 1, {<<"M">>}, FALSE, FALSE)))

\* Lines 220-246: _parse_iso_duration
_parse_iso_duration(duration) ==
    IF ~HasExactAt(duration, 1, <<"P", "T">>) THEN NoMinutes
    ELSE PositiveOrNone(IntOrZero(SearchNumber(From(duration, 2), 1, {<<"H">>}, FALSE, FALSE)) * 60
                        + IntOrZero(SearchNumber(From(duration, 2), 1, {<<"M">>}, FALSE, FALSE)))

\* Lines 248-266: _parse_time_text; (?:hr|hour|hours) and (?:min|minute|minutes)
HourWords == {<<"h", "r">>, <<"h", "o", "u", "r">>}
MinuteWords == {<<"m", "i", "n">>}
_parse_time_text(text) ==
    PositiveOrNone(IntOrZero(SearchNumber(text, 1, HourWords, TRUE, TRUE)) * 60
                   + IntOrZero(SearchNumber(text, 1, MinuteWords, TRUE, TRUE)))

\* re.search(rf'{time_type}:\s*(\d+)\s*(?:<words>)', s, re.IGNORECASE) from position i
\* on: group(1), None without a match.  num is where the digits have to start, e
\* where they end.
RECURSIVE SearchLabelled(_, _, _, _)
LabelledNumber(s, i, label, words, num, e) ==
    IF HasWordAt(s, i, label) /\ e > num /\ WordFollows(s, SpacesEnd(s, e), words, TRUE)
    THEN SubSeq(s, num, e - 1)
    ELSE SearchLabelled(s, i + 1, label, words)
LabelledAt(s, i, label, words, num) == LabelledNumber(s, i, label, words, num, DigitsEnd(s, num))
SearchLabelled(s, i, label, words) ==
    IF i > Len(s) THEN None
    ELSE LabelledAt(s, i, label, words, SpacesEnd(s, i + Len(label)))

\* soup.find(text=re.compile(pattern)) and re.search(pattern, match): group(1) in the
\* first text node the pattern matches, None when it matches none
RECURSIVE FindLabelled(_, _, _, _)
FoundOrNext(strings, k, label, words, result) ==
    IF result # None THEN result ELSE FindLabelled(strings, k + 1, label, words)
FindLabelled(strings, k, label, words) ==
    IF k > Len(strings) THEN None
    ELSE FoundOrNext(strings, k, label, words, SearchLabelled(strings[k], 1, label, words))

\* Lines 211-218: the loop over time_patterns, mins and hrs being group(1) of the
\* first and of the second pattern
PatternMinutes(mins, hrs) ==
    IF mins # None THEN ToInt(mins) * 1
    ELSE IF hrs # None THEN ToInt(hrs) * 60
    ELSE NoMinutes
\* Lines 204-218: the two time_patterns, minutes first
PatternTime(doc, time_type) ==
    PatternMinutes(FindLabelled(doc.strings, 1, TimeTypeWord(time_type) \o <<":">>, MinuteWords),
                   FindLabelled(doc.strings, 1, TimeTypeWord(time_type) \o <<":">>, HourWords))

\* Python truthiness of an Optional[int]
TruthyInt(m) == m # NoMinutes /\ m # 0

\* Lines 193-202 with the text tried before the datetime attribute
FirstMinutesTextFirst(iso, text) ==
    IF TruthyInt(text) THEN text ELSE IF TruthyInt(iso) THEN iso ELSE NoMinutes

\* Lines 193-202: the datetime attribute first, the text next
FirstMinutes(iso, text) ==
    IF TruthyInt(iso) THEN iso ELSE IF TruthyInt(text) THEN text ELSE NoMinutes
\* Lines 189-202: the itemprop element of time_type; NoMinutes when it gives no minutes
ElementMinutes(time_elem) ==
    IF ~time_elem.present THEN NoMinutes
    ELSE FirstMinutes(IF Truthy(time_elem.datetime) THEN _parse_iso_duration(time_elem.datetime)
                      ELSE NoMinutes,
                      _parse_time_text(strip(time_elem.text)))
ElementTime(doc, time_type) == ElementMinutes(doc.times[time_type])

\* Lines 185-218: _extract_time_value
ElementOrPattern(minutes, pattern) == IF minutes # NoMinutes THEN minutes ELSE pattern
_extract_time_value(doc, time_type) ==
    ElementOrPattern(ElementTime(doc, time_type), PatternTime(doc, time_type))

\* Lines 171-183 with the sum of prepTime and cookTime preferred to totalTime
TotalTimeSumFirst(prep_time, cook_time, total_time) ==
    IF TruthyInt(prep_time) \/ TruthyInt(cook_time)
    THEN PositiveOrNone((IF TruthyInt(prep_time) THEN prep_time ELSE 0)
                        + (IF TruthyInt(cook_time) THEN cook_time ELSE 0))
    ELSE IF TruthyInt(total_time) THEN total_time
    ELSE NoMinutes

\* Lines 171-183: the total from the three values
TotalTime(prep_time, cook_time, total_time) ==
    IF TruthyInt(total_time) THEN total_time
    ELSE IF TruthyInt(prep_time) \/ TruthyInt(cook_time)
    THEN PositiveOrNone((IF TruthyInt(prep_time) THEN prep_time ELSE 0)
                        + (IF TruthyInt(cook_time) THEN cook_time ELSE 0))
    ELSE NoMinutes
\* Lines 163-183: _extract_time
_extract_time(doc) ==
    TotalTime(_extract_time_value(doc, "prepTime"), _extract_time_value(doc, "cookTime"),
              _extract_time_value(doc, "totalTime"))

LowBelow == 30
MediumBelow == 60
NoEffort == "None"
\* Lines 328-339 with the two limits counted to the lower class
_estimate_effort_inclusive(total_time_minutes) ==
    IF total_time_minutes = NoMinutes THEN NoEffort
    ELSE IF total_time_minutes <= LowBelow THEN "LOW"
    ELSE IF total_time_minutes <= MediumBelow THEN "MEDIUM"
    ELSE "HIGH"

\* Lines 328-339 with no effort given to an hour or more
_estimate_effort_up_to_an_hour(total_time_minutes) ==
    IF total_time_minutes = NoMinutes THEN NoEffort
    ELSE IF total_time_minutes < LowBelow THEN "LOW"
    ELSE IF total_time_minutes < MediumBelow THEN "MEDIUM"
    ELSE NoEffort

\* Lines 328-339: _estimate_effort
_estimate_effort(total_time_minutes) ==
    IF total_time_minutes = NoMinutes THEN NoEffort
    ELSE IF total_time_minutes < LowBelow THEN "LOW"
    ELSE IF total_time_minutes < MediumBelow THEN "MEDIUM"
    ELSE "HIGH"

\* get_text().strip() of an element, None when there is no element
StrippedText(text) == IF text # None THEN strip(text) ELSE None

\* Lines 105-135 with the h1 heading tried before the itemprop=name element
TitleAmongH1First(og_title, name, h1, title_tag) ==
    IF Truthy(og_title) THEN strip(og_title)
    ELSE IF Truthy(h1) THEN h1
    ELSE IF Truthy(name) THEN name
    ELSE title_tag

\* Lines 105-135 on the og:title content and the stripped texts
TitleAmong(og_title, name, h1, title_tag) ==
    IF Truthy(og_title) THEN strip(og_title)
    ELSE IF Truthy(name) THEN name
    ELSE IF Truthy(h1) THEN h1
    ELSE title_tag
\* Lines 102-135: _extract_title
_extract_title(doc) ==
    TitleAmong(doc.og_title, StrippedText(doc.name_text), StrippedText(doc.h1_text),
               StrippedText(doc.title_text))

\* Lines 140-161 on the two contents and the stripped text
DescriptionAmong(og_desc, meta_desc, desc) ==
    IF Truthy(og_desc) THEN strip(og_desc)
    ELSE IF Truthy(meta_desc) THEN strip(meta_desc)
    ELSE IF Truthy(desc) THEN desc
    ELSE None
\* Lines 137-161: _extract_description
_extract_description(doc) ==
    DescriptionAmong(doc.og_description, doc.meta_description, StrippedText(doc.description_text))

\* re.compile(word, re.IGNORECASE).search(s)
Contains(s, word) == \E i \in 1..Len(s) : HasWordAt(s, i, word)

\* the stripped texts that are not empty and, with skip_header, do not start with
\* 'Ingredients' (lines 277-279, 298-300, 318-320), in order
Accepted(text, skip_header) ==
    IF text # <<>> /\ ~(skip_header /\ HasExactAt(text, 1, <<"I", "n", "g", "r", "e", "d", "i", "e", "n", "t", "s">>))
    THEN <<text>> ELSE <<>>
RECURSIVE Collected(_, _)
Collected(texts, skip_header) ==
    IF texts = <<>> THEN <<>>
    ELSE Accepted(strip(Head(texts)), skip_header) \o Collected(Tail(texts), skip_header)

\* Lines 285-292: common_classes
common_classes == <<
    <<"i", "n", "g", "r", "e", "d", "i", "e", "n", "t">>,
    <<"r", "e", "c", "i", "p", "e", "-", "i", "n", "g", "r", "e", "d", "i", "e", "n", "t">>,
    <<"i", "n", "g", "r", "e", "d", "i", "e", "n", "t", "s", "-", "i", "t", "e", "m">>,
    <<"i", "n", "g", "r", "e", "d", "i", "e", "n", "t", "-", "t", "e", "x", "t">>,
    <<"i", "n", "g", "r", "e", "d", "i", "e", "n", "t", "-", "l", "i", "s", "t">>,
    <<"s", "t", "r", "u", "c", "t", "u", "r", "e", "d", "-", "i", "n", "g", "r", "e", "d", "i", "e", "n", "t", "s", "_", "_", "l", "i", "s", "t", "-", "i", "t", "e", "m">>
>>

\* soup.find_all(class_=re.compile(class_name, re.IGNORECASE)): the texts of the
\* elements whose class matches, in document order
RECURSIVE TextsOfClass(_, _)
TextsOfClass(classed, class_name) ==
    IF classed = <<>> THEN <<>>
    ELSE (IF Contains(Head(classed).class, class_name) THEN <<Head(classed).text>> ELSE <<>>)
         \o TextsOfClass(Tail(classed), class_name)

\* Lines 294-303: the loop over common_classes from entry k on
RECURSIVE ByClassFrom(_, _)
ClassOrNext(doc, k, ingredients) == IF ingredients # <<>> THEN ingredients ELSE ByClassFrom(doc, k + 1)
ByClassFrom(doc, k) ==
    IF k > Len(common_classes) THEN <<>>
    ELSE ClassOrNext(doc, k, Collected(TextsOfClass(doc.classed, common_classes[k]), TRUE))

\* Lines 273-326 with the lines of the class names added to those of the schema.org markup
FirstStrategyMixed(schema, by_class, section) ==
    IF schema # <<>> THEN schema \o by_class ELSE IF by_class # <<>> THEN by_class ELSE section

\* Lines 273-326 on what the three strategies collect
FirstStrategy(schema, by_class, section) ==
    IF schema # <<>> THEN schema ELSE IF by_class # <<>> THEN by_class ELSE section
\* Lines 268-326: _extract_ingredients
_extract_ingredients(doc) ==
    FirstStrategy(Collected(doc.recipe_ingredient, FALSE), ByClassFrom(doc, 1),
                  IF doc.section_list # None THEN Collected(doc.section_list, FALSE) ELSE <<>>)

\* Lines 46-63: one raw line made a ParsedIngredient, r being what parse_ingredient did
IngredientOf(raw_ingredient, r) ==
    IF r.exception # None
    THEN [name |-> raw_ingredient, amount |-> None, unit |-> None, is_well_formed |-> FALSE,
          raw_text |-> raw_ingredient]
    ELSE [name |-> r.response.name, amount |-> r.response.amount, unit |-> r.response.unit,
          is_well_formed |-> r.response.is_well_formed, raw_text |-> raw_ingredient]
ParsedIngredient(raw_ingredient) == IngredientOf(raw_ingredient, parse_ingredient(raw_ingredient))

\* Lines 44-63 with the lines that did not parse well left out
ParsedIngredientsWellFormedOnly(ingredients_raw) ==
    SelectSeq([i \in 1..Len(ingredients_raw) |-> ParsedIngredient(ingredients_raw[i])],
              LAMBDA p : p.is_well_formed)

\* Lines 44-63: the loop over ingredients_raw, one append per line
ParsedIngredients(ingredients_raw) ==
    [i \in 1..Len(ingredients_raw) |-> ParsedIngredient(ingredients_raw[i])]

\* Lines 44-77: the response built from what was extracted
Response(url, title, description, total_time_minutes, ingredients_raw) ==
    [title              |-> title,
     description        |-> description,
     total_time_minutes |-> total_time_minutes,
     effort             |-> _estimate_effort(total_time_minutes),
     ingredients        |-> ParsedIngredients(ingredients_raw),
     url                |-> url]
\* Lines 38-77: the response of a parse that went through
Extracted(url, doc) ==
    Response(url, _extract_title(doc), _extract_description(doc), _extract_time(doc),
             _extract_ingredients(doc))

\* Lines 82-86: the response after an exception e, str(e) = message
FailurePrefix == <<"F", "a", "i", "l", "e", "d", " ", "t", "o", " ", "p", "a", "r", "s", "e", " ", "r", "e", "c", "i", "p", "e", ":", " ">>
Degraded(url, message) ==
    [title              |-> None,
     description        |-> FailurePrefix \o message,
     total_time_minutes |-> NoMinutes,
     effort             |-> NoEffort,
     ingredients        |-> <<>>,
     url                |-> url]

\* The statements of the try block (lines 30-77) that raise: "fetch" is _fetch_url
\* (requests.get and raise_for_status, lines 96-97), "soup" is BeautifulSoup(html_content,
\* 'lxml') (line 35), "time" is the int() of line 216, which _extract_time_value leaves
\* unguarded and which raises ValueError on a digit run longer than int() converts
Steps == {"fetch", "soup", "time"}

\* parse_recipe whose except branch keeps the title extracted before the failure
parse_recipe_keeps_title(url, s) ==
    IF s.raises = "none"
    THEN [exception |-> None, response |-> Extracted(url, s.doc)]
    ELSE [exception |-> None,
          response  |-> [Degraded(url, s.message) EXCEPT
                            !.title = IF s.raises = "time" THEN _extract_title(s.doc) ELSE None]]

\* Lines 23-86: parse_recipe.  s is the site behind url: s.raises names the statement
\* that raises for it ("none": no statement does), s.message is str(e) of that
\* exception, s.doc the document the site serves.
parse_recipe(url, s) ==
    IF s.raises = "none"
    THEN [exception |-> None, response |-> Extracted(url, s.doc)]
    ELSE [exception |-> None, response |-> Degraded(url, s.message)]

-----------------------------------------------------------------------------
(* The requests: ingredient lines built from a few shapes *)

MaxDigit == 2       \* digits 0..MaxDigit occur in generated quantities
MaxWords == 3       \* words in a generated word line
MaxGap == 2         \* longest run of blanks between the words of a pinch line
MaxShortLen == 3    \* length of the exhaustively generated short strings
MaxNormLen == 2     \* length of the strings given to _normalize_fractions

Digit(k) == DigitChars[k + 1]
Blanks(k) == [i \in 1..k |-> " "]
Gaps == {Blanks(k) : k \in 1..MaxGap} \cup {<<"\t">>}

\* all sequences over the set A of length at most k
RECURSIVE SeqsUpTo(_, _)
SeqsUpTo(A, k) ==
    IF k = 0 THEN {<<>>}
    ELSE SeqsUpTo(A, k - 1) \cup {Append(s, a) : s \in {x \in SeqsUpTo(A, k - 1) : Len(x) = k - 1}, a \in A}

\* the lines of the docstring and of the specification's examples, and their kin
Examples == {
    <<"2", " ", "1", "/", "2", " ", "c", "u", "p", "s", " ", "a", "l", "l", "-", "p", "u", "r", "p", "o", "s", "e", " ", "f", "l", "o", "u", "r">>,
    <<"1", "-", "2", " ", "m", "e", "d", "i", "u", "m", " ", "o", "n", "i", "o", "n", "s", ",", " ", "d", "i", "c", "e", "d">>,
    <<"a", " ", "p", "i", "n", "c", "h", " ", "o", "f", " ", "s", "a", "l", "t">>,
    <<"a", " ", "d", "a", "s", "h", " ", "o", "f", " ", "p", "e", "p", "p", "e", "r">>,
    <<"1", " ", "f", "l", "u", "i", "d", " ", "o", "u", "n", "c", "e", " ", "l", "e", "m", "o", "n", " ", "j", "u", "i", "c", "e">>,
    <<"1", "/", "0", " ", "c", "u", "p", " ", "s", "u", "g", "a", "r">>,
    <<"1", " ", "2", "-", "3", " ", "c", "u", "p", "s">>,
    <<"2", "U+00BD", " ", "c", "u", "p", "s", " ", "f", "l", "o", "u", "r">>,
    <<"2", " ", "1", "/", "2", " ", "c", "u", "p", "s", " ", "f", "l", "o", "u", "r">>,
    <<"a", " ", "d", "a", "s", "h", " ", "s", "a", "l", "t">>,
    <<"2", " ", "c", "u", "p", "s">>,
    <<"2", " ", "c", "u", "p", "s", " ", "o", "f", " ", "f", "l", "o", "u", "r">>
}

\* d and d.d
Numbers ==
    {<<Digit(a)>> : a \in 0..MaxDigit} \cup {<<Digit(a), ".", Digit(b)>> : a, b \in 0..MaxDigit}
Wholes == {<<>>} \cup {n \o <<" ">> : n \in Numbers}
Dashes == {<<"-">>, <<" ", "-", " ">>, <<" ", "-">>, <<"-", " ">>}
Seconds ==
    {<<Digit(a), "/", Digit(b)>> : a, b \in 0..MaxDigit}
    \cup Numbers
    \cup {<<Digit(a)>> \o dash \o <<Digit(b)>> : a, b \in 0..MaxDigit, dash \in Dashes}
    \cup {<<"1", ".", "5", "-", "2", ".", "5">>, <<"U+00BD">>, <<"U+00BE">>, <<"U+2153">>}
    \cup {<<Digit(a), "U+00BD">> : a \in 0..MaxDigit}
QuantityTails == {<<>>, <<" ", "c", "u", "p", "s", " ", "f", "l", "o", "u", "r">>}
QuantityLines == {w \o s \o tl : w \in Wholes, s \in Seconds, tl \in QuantityTails}

Vocabulary == {
    <<"c", "u", "p", "s">>,
    <<"C", "u", "p", ",">>,
    <<"f", "l", "u", "i", "d">>,
    <<"o", "u", "n", "c", "e">>,
    <<"f", "l">>,
    <<"o", "z", ".">>,
    <<"o", "f">>,
    <<"f", "l", "o", "u", "r">>
}
RECURSIVE JoinAll(_)
JoinAll(ws) == IF Len(ws) = 1 THEN ws[1] ELSE ws[1] \o <<" ">> \o JoinAll(Tail(ws))
WordLines ==
    {pre \o JoinAll(ws) : pre \in {<<>>, <<"1", " ">>}, ws \in SeqsUpTo(Vocabulary, MaxWords) \ {<<>>}}

PinchNames == {<<"s", "a", "l", "t">>, <<"o", "f", " ", "s", "a", "l", "t">>, <<"c", "u", "p", " ", "s", "a", "l", "t">>}
PinchLines ==
    {a \o g1 \o kw \o tl :
        a \in {<<"a">>, <<"A">>}, g1 \in Gaps,
        kw \in {<<"p", "i", "n", "c", "h">>, <<"d", "a", "s", "h">>, <<"P", "I", "N", "C", "H">>, <<"D", "a", "s", "h">>},
        tl \in {<<>>, <<"e", "s", " ", "o", "f", " ", "s", "a", "l", "t">>}
               \cup {g2 \o x : g2 \in Gaps, x \in PinchNames}
               \cup {g2 \o of \o g3 \o x : g2 \in Gaps, g3 \in Gaps, of \in {<<"o", "f">>, <<"O", "f">>}, x \in PinchNames}}

ShortAlphabet == {" ", "\t", "a", "1", "/", "U+00BD"}
ShortLines == SeqsUpTo(ShortAlphabet, MaxShortLen)

PaddedLines == {l \o s \o r : l \in {<<>>, <<" ">>}, r \in {<<>>, <<" ">>, <<" ", "\t">>}, s \in Examples}

IngredientLines == QuantityLines \cup WordLines \cup PinchLines \cup ShortLines \cup PaddedLines

NormAlphabet == {UNICODE_FRACTIONS[i][1] : i \in 1..Len(UNICODE_FRACTIONS)} \cup {"1", "/", "a", " "}
NormTexts == SeqsUpTo(NormAlphabet, MaxNormLen)

-----------------------------------------------------------------------------------------------------------------------------------------------------
(* The service.  It keeps no state between requests (main.py, lines 29-32:  *)
(* the services are built once and hold only the tables), so a behaviour is *)
(* one request and the call that answers it.                                *)

-----------------------------------------------------------------------------
(* auth_utils.py and the /ingredient-metadata endpoint of main.py *)

\* HTTPException(status_code=401, ...) raised; no token is returned
Unauthorized == [raised |-> TRUE, access_token |-> None]

\* Lines 34-52 of auth_utils.py with the scheme compared as it is written
BearerOfCaseSensitive(header_parts) ==
    IF Len(header_parts) # 2 \/ header_parts[1] # <<"B", "e", "a", "r", "e", "r">> THEN Unauthorized
    ELSE IF header_parts[2] = <<>> THEN Unauthorized
    ELSE [raised |-> FALSE, access_token |-> header_parts[2]]

\* Lines 34-52 of auth_utils.py on header_parts, the parts of auth_header.split()
BearerOf(header_parts) ==
    IF Len(header_parts) # 2 \/ lower(header_parts[1]) # <<"b", "e", "a", "r", "e", "r">> THEN Unauthorized
    ELSE IF header_parts[2] = <<>> THEN Unauthorized
    ELSE [raised |-> FALSE, access_token |-> header_parts[2]]
\* Lines 11-52 of auth_utils.py: extract_bearer_token, auth_header being
\* request.headers.get("Authorization")
extract_bearer_token(auth_header) ==
    IF ~Truthy(auth_header) THEN Unauthorized ELSE BearerOf(split(auth_header))

\* what ingredient_service.get_ingredient_metadata does at line 153 of main.py: it
\* returns a response, or raises an exception that is not an HTTPException
ServiceOutcomes == {"returns", "raises"}
\* Lines 150-170 of main.py on the outcome of extract_bearer_token: the HTTPException
\* is re-raised (161-163), any other exception becomes a 500 (164-170)
MetadataAnswer(token, service) ==
    IF token.raised THEN [status_code |-> 401, access_token |-> None]
    ELSE [status_code |-> IF service = "returns" THEN 200 ELSE 500, access_token |-> token.access_token]
\* Lines 138-170 of main.py: get_ingredient_metadata; access_token is what the
\* service was called with, None when it was not called
get_ingredient_metadata(authorization, service) ==
    MetadataAnswer(extract_bearer_token(authorization), service)

(* The endpoints that build an LLM client from the caller's token *)

\* what becomes of the LLM call: create_llm_with_token raises its HTTPException
\* 401 (auth_utils.py lines 90-95), llm.invoke raises, the answer does not
\* parse, or the answer parses
LlmOutcomes == {"build_fails", "invoke_fails", "unparsable", "answers"}

NoRaise == "None"

\* IngredientService.get_ingredient_metadata, lines 268-285: _get_llm, invoke and
\* parse run inside try; except Exception returns _get_fallback_metadata
IngredientService_get_ingredient_metadata(llm) ==
    [raised |-> NoRaise, fallback |-> llm # "answers"]

\* MealPlanChatService.suggest_meals_for_day, lines 68-97: _get_llm and invoke run
\* inside try, except Exception returns _create_fallback_response; so does parsing
MealPlanChatService_suggest_meals_for_day(llm) ==
    [raised |-> NoRaise, fallback |-> llm # "answers"]

\* IngredientSuggestionService.suggest_ingredients, lines 97-120: except Exception
\* logs and raises again
IngredientSuggestionService_suggest_ingredients(llm) ==
    IF llm = "build_fails" THEN [raised |-> "HTTPException", fallback |-> FALSE]
    ELSE IF llm = "answers" THEN [raised |-> NoRaise, fallback |-> FALSE]
    ELSE [raised |-> "Exception", fallback |-> FALSE]

LlmEndpoints == {"/ingredient-metadata", "/chat-meal-plan-day", "/suggest-ingredients"}

\* the service call each endpoint makes (main.py lines 153, 197, 232)
ServiceOf(endpoint, llm) ==
    IF endpoint = "/ingredient-metadata" THEN IngredientService_get_ingredient_metadata(llm)
    ELSE IF endpoint = "/chat-meal-plan-day" THEN MealPlanChatService_suggest_meals_for_day(llm)
    ELSE IngredientSuggestionService_suggest_ingredients(llm)

\* The try of each endpoint: except HTTPException raises again, except Exception
\* raises HTTPException 500, a returned value is answered with 200
LlmEndpointAnswer(token, result) ==
    IF token.raised THEN [status_code |-> 401, fallback |-> FALSE]
    ELSE IF result.raised = "HTTPException" THEN [status_code |-> 401, fallback |-> FALSE]
    ELSE IF result.raised = "Exception" THEN [status_code |-> 500, fallback |-> FALSE]
    ELSE [status_code |-> 200, fallback |-> result.fallback]

\* main.py lines 138-170, 173-216 and 219-245
llm_endpoint(endpoint, authorization, llm) ==
    LlmEndpointAnswer(extract_bearer_token(authorization), ServiceOf(endpoint, llm))

(* meal_plan_chat_service.py: MealPlanChatService.suggest_meals_for_day *)

\* a request carries the roles of the messages of its conversation history and its
\* available meals; the LLM's parsed answer carries its suggestions
MaxHistory == 3
MaxMeals == 6
MaxSuggested == 7
Roles == {"user", "assistant"}
Histories == UNION {[1..n -> Roles] : n \in 0..MaxHistory}

\* n meals, or n suggestions, told apart by their ids; SuggestedMeal.rank is
\* constrained to 1..5 by models.py line 247
HighestRank == 5
RankOf(i) == IF i <= HighestRank THEN i ELSE HighestRank
Meals(n) == [i \in 1..n |-> i]
Suggested(n) == [i \in 1..n |-> [meal_id |-> i, rank |-> RankOf(i)]]

ChatRequests ==
    {[conversation_history |-> h, available_meals |-> Meals(n)] : h \in Histories, n \in 0..MaxMeals}
ChatLlms ==
    {[outcome |-> o, suggestions |-> <<>>] : o \in LlmOutcomes \ {"answers"}}
    \cup {[outcome |-> "answers", suggestions |-> Suggested(n)] : n \in 0..MaxSuggested}
ChatArguments == [request : ChatRequests, llm : ChatLlms]

\* lines 58-63: the prompt that is built
FallbackMeals == 5
MostSuggestions == 5
PromptFor(request) ==
    IF Len(request.conversation_history) = 1 THEN "initial" ELSE "followup"

\* seq[:n]
FirstOf(seq, n) == IF Len(seq) > n THEN SubSeq(seq, 1, n) ELSE seq

\* _create_fallback_response(request, error), lines 362-386
FallbackSuggestions(meals) == [i \in 1..Len(meals) |-> [meal_id |-> meals[i], rank |-> i]]
_create_fallback_response(request, prompt) ==
    [suggestions |-> FallbackSuggestions(FirstOf(request.available_meals, FallbackMeals)),
     fallback |-> TRUE, prompt |-> prompt]

\* lines 81-91: fewer than 3 suggestions are only logged, more than 5 are cut to 5
ParsedResponse(suggestions, prompt) ==
    [suggestions |-> FirstOf(suggestions, MostSuggestions), fallback |-> FALSE, prompt |-> prompt]

\* suggest_meals_for_day(request, access_token), lines 39-97; its result also
\* tells which prompt was sent
SuggestWith(request, llm, prompt) ==
    IF llm.outcome = "answers" THEN ParsedResponse(llm.suggestions, prompt)
    ELSE _create_fallback_response(request, prompt)
suggest_meals_for_day(request, llm) == SuggestWith(request, llm, PromptFor(request))

(* The sites: documents built field by field *)

NoElem == [present |-> FALSE, datetime |-> None, text |-> <<>>]
EmptyDoc ==
    [og_title |-> None, name_text |-> None, h1_text |-> None, title_text |-> None,
     og_description |-> None, meta_description |-> None, description_text |-> None,
     times |-> [t \in TimeTypes |-> NoElem], strings |-> <<>>,
     recipe_ingredient |-> <<>>, classed |-> <<>>, section_list |-> None]

OgTitles == {None, <<>>, <<" ">>, <<"S", "o", "u", "p", " ">>}
NameTexts == {None, <<" ">>, <<"S", "t", "e", "w">>}
H1Texts == {None, <<>>, <<" ", "P", "i", "e">>}
TitleTexts == {None, <<>>, <<"S", "i", "t", "e">>}
TitleDocs ==
    {[EmptyDoc EXCEPT !.og_title = a, !.name_text = b, !.h1_text = c, !.title_text = d] :
        a \in OgTitles, b \in NameTexts, c \in H1Texts, d \in TitleTexts}

OgDescriptions == {None, <<>>, <<" ">>, <<"W", "a", "r", "m", " ">>}
MetaDescriptions == {None, <<>>, <<"E", "a", "s", "y">>}
DescriptionTexts == {None, <<" ">>, <<" ", "R", "i", "c", "h">>}
DescriptionDocs ==
    {[EmptyDoc EXCEPT !.og_description = a, !.meta_description = b, !.description_text = c] :
        a \in OgDescriptions, b \in MetaDescriptions, c \in DescriptionTexts}

TimeElems == {
    NoElem,
    [present |-> TRUE, datetime |-> <<"P", "T", "1", "H", "3", "0", "M">>, text |-> <<>>],
    [present |-> TRUE, datetime |-> <<"P", "T", "0", "M">>, text |-> <<"4", "5", " ", "m", "i", "n">>],
    [present |-> TRUE, datetime |-> None, text |-> <<" ", "1", " ", "h", "r", " ", "5", " ", "m", "i", "n", "u", "t", "e", "s", " ">>],
    [present |-> TRUE, datetime |-> <<"3", "0", "M">>, text |-> <<"s", "o", "o", "n">>],
    [present |-> TRUE, datetime |-> None, text |-> <<"0", " ", "H", "o", "u", "r", "s", " ", "0", " ", "m", "i", "n">>],
    [present |-> TRUE, datetime |-> <<"P", "T", "2", "0", "M">>, text |-> <<"2", "5", " ", "m", "i", "n", "s">>]
}
TimeStrings == {
    <<>>,
    <<<<"P", "r", "e", "p">>, <<"p", "r", "e", "p", "T", "i", "m", "e", ":", " ", "2", "0", " ", "m", "i", "n">>>>,
    <<<<"C", "o", "o", "k", "T", "i", "m", "e", ":", " ", " ", "2", " ", "h", "o", "u", "r", "s">>>>,
    <<<<"t", "o", "t", "a", "l", "t", "i", "m", "e", ":", " ", "0", " ", "m", "i", "n", "u", "t", "e", "s">>>>,
    <<<<"c", "o", "o", "k", "t", "i", "m", "e", ":", "1", "h", "r">>, <<"c", "o", "o", "k", "T", "i", "m", "e", ":", " ", "5", " ", "m", "i", "n">>, <<"p", "r", "e", "p", "t", "i", "m", "e", ":", " ", "0", "h", "r">>>>
}
TimeDocs ==
    {[EmptyDoc EXCEPT !.times = e, !.strings = s] : e \in [TimeTypes -> TimeElems], s \in TimeStrings}

RecipeIngredients == {
    <<>>,
    <<<<" ">>>>,
    <<<<" ", "2", " ", "c", "u", "p", "s", " ", "f", "l", "o", "u", "r", " ">>, <<>>, <<"a", " ", "p", "i", "n", "c", "h", " ", "o", "f", " ", "s", "a", "l", "t">>>>,
    <<<<" ", "1", "/", "0", " ", "c", "u", "p", " ", "s", "u", "g", "a", "r">>, <<"2", " ", "c", "u", "p", "s", " ", "f", "l", "o", "u", "r">>, <<"s", "a", "l", "t", " ">>>>
}
ClassedElements == {
    <<>>,
    <<[class |-> <<"i", "n", "g", "r", "e", "d", "i", "e", "n", "t", "s", "-", "i", "t", "e", "m">>, text |-> <<"I", "n", "g", "r", "e", "d", "i", "e", "n", "t", "s">>]>>,
    <<[class |-> <<"R", "e", "c", "i", "p", "e", "-", "I", "n", "g", "r", "e", "d", "i", "e", "n", "t", " ", "w", "i", "d", "e">>, text |-> <<" ", "1", "/", "2", " ", "t", "s", "p", " ", "s", "a", "l", "t">>], [class |-> <<"i", "n", "g", "r", "e", "d", "i", "e", "n", "t">>, text |-> <<"2", " ", "e", "g", "g", "s", " ">>]>>,
    <<[class |-> <<"i", "n", "g", "r", "e", "d", "i", "e", "n", "t", "-", "l", "i", "s", "t">>, text |-> <<"I", "n", "g", "r", "e", "d", "i", "e", "n", "t", "s", ":">>], [class |-> <<"n", "o", "t", "e">>, text |-> <<"s", "t", "i", "r">>], [class |-> <<"s", "t", "r", "u", "c", "t", "u", "r", "e", "d", "-", "i", "n", "g", "r", "e", "d", "i", "e", "n", "t", "s", "_", "_", "l", "i", "s", "t", "-", "i", "t", "e", "m">>, text |-> <<"1", " ", "o", "n", "i", "o", "n">>]>>
}
SectionLists == {
    None,
    <<>>,
    <<<<"1", " ", "c", "u", "p", " ", "m", "i", "l", "k">>, <<" ">>, <<"b", "u", "t", "t", "e", "r">>>>
}
IngredientDocs ==
    {[EmptyDoc EXCEPT !.recipe_ingredient = a, !.classed = b, !.section_list = c,
                      !.og_title = <<"S", "o", "u", "p", " ">>] :
        a \in RecipeIngredients, b \in ClassedElements, c \in SectionLists}

Docs == TitleDocs \cup DescriptionDocs \cup TimeDocs \cup IngredientDocs

\* str(e) of the exceptions met: requests' ConnectionError, Timeout and HTTPError,
\* bs4's FeatureNotFound, int()'s ValueError, and an exception without arguments
Failures == {
    [raises |-> "fetch", message |-> <<"C", "o", "n", "n", "e", "c", "t", "i", "o", "n", " ", "r", "e", "f", "u", "s", "e", "d">>],
    [raises |-> "fetch", message |-> <<"R", "e", "a", "d", " ", "t", "i", "m", "e", "d", " ", "o", "u", "t">>],
    [raises |-> "fetch", message |-> <<"4", "0", "4", " ", "C", "l", "i", "e", "n", "t", " ", "E", "r", "r", "o", "r">>],
    [raises |-> "fetch", message |-> <<>>],
    [raises |-> "soup", message |-> <<"n", "o", " ", "t", "r", "e", "e", " ", "b", "u", "i", "l", "d", "e", "r">>],
    [raises |-> "time", message |-> <<"E", "x", "c", "e", "e", "d", "s", " ", "t", "h", "e", " ", "l", "i", "m", "i", "t">>]
}
\* line 216 is reached for some time_type: its element gave no minutes
ReachesInt(doc) == \E time_type \in TimeTypes : ElementTime(doc, time_type) = NoMinutes
Sites ==
    {[raises |-> "none", message |-> <<>>, doc |-> d] : d \in Docs}
    \cup {s \in {[raises |-> f.raises, message |-> f.message, doc |-> d] : f \in Failures, d \in Docs} :
              s.raises = "time" => ReachesInt(s.doc)}
Urls == {<<"h", "t", "t", "p", ":", "/", "/", "a", "/", "1">>, <<"b">>}

\* total_time_minutes: None or a number of minutes up to MaxMinutes
MaxMinutes == 120
EffortArguments == {NoMinutes} \cup 0..MaxMinutes

\* duration: a prefix, then '<h>H' or nothing, then '<m>M' or nothing
MaxIsoHours == 3
MaxIsoMinutes == 45
IsoPrefixes == {<<"P", "T">>, <<>>, <<"P">>, <<"T">>, <<"p", "t">>, <<" ", "P", "T">>, <<"P", "1", "D", "T">>}
IsoComponent(n, letter) == IF n = NoMinutes THEN <<>> ELSE IntStr(n) \o <<letter>>
IsoDuration(prefix, h, m) == prefix \o IsoComponent(h, "H") \o IsoComponent(m, "M")
IsoHours == {NoMinutes} \cup 0..MaxIsoHours
IsoMinutes == {NoMinutes} \cup 0..MaxIsoMinutes
IsoArguments == {IsoDuration(prefix, h, m) : prefix \in IsoPrefixes, h \in IsoHours, m \in IsoMinutes}

\* the Authorization header: a scheme, a gap, the credentials and what trails them,
\* or None when the request has no such header
Schemes == {<<"B", "e", "a", "r", "e", "r">>, <<"b", "e", "a", "r", "e", "r">>, <<"B", "E", "A", "R", "E", "R">>, <<"B", "e", "A", "r", "E", "r">>, <<"B", "a", "s", "i", "c">>, <<"B", "e", "a", "r", "e", "r", "s">>, <<"B", "e", "a", "r">>, <<>>}
SchemeGaps == {<<>>, <<" ">>, <<" ", " ">>, <<"\t">>}
Credentials == {<<>>, <<"t", "o", "k">>, <<"a", " ", "b">>, <<"y", "a", "2", "9", ".", "A", "-", "b">>}
Trailing == {<<>>, <<" ">>}
Authorizations ==
    {None} \cup {s \o g \o c \o e : s \in Schemes, g \in SchemeGaps, c \in Credentials, e \in Trailing}

\* the concurrent calls and the lines they are given
NumCalls == 2
CallIds == 1..NumCalls
ConcurrentLines == {
    <<"2", "U+00BD", " ", "c", "u", "p", "s", " ", "f", "l", "o", "u", "r">>,
    <<"a", " ", "p", "i", "n", "c", "h", " ", "o", "f", " ", "s", "a", "l", "t">>,
    <<"1", " ", "f", "l", "u", "i", "d", " ", "o", "u", "n", "c", "e", " ", "l", "e", "m", "o", "n", " ", "j", "u", "i", "c", "e">>,
    <<"1", "/", "0", " ", "c", "u", "p", " ", "s", "u", "g", "a", "r">>,
    <<"2", " ", "c", "u", "p", "s">>,
    <<" ", "x">>
}
NoWorking == [ingredient_str |-> None, text |-> None, q |-> NoQuantity, p |-> NotCalled]

\* soup and time_type of an _extract_time_value call
TimeValueArguments == [doc : TimeDocs, time_type : TimeTypes]

NoSite == [raises |-> "none", message |-> <<>>, doc |-> EmptyDoc]
NoRecipeResponse ==
    [title |-> None, description |-> None, total_time_minutes |-> NoMinutes, effort |-> NoEffort,
     ingredients |-> <<>>, url |-> None]

NoResponse == [name |-> None, amount |-> None, unit |-> None, is_well_formed |-> FALSE, raw_text |-> None]

\* a POST /parse-ingredient request has arrived
Init ==
    /\ pc = "request"
    /\ ingredient_string \in IngredientLines
    /\ parts = NotCalled
    /\ response = NoResponse
    /\ exception = None
    /\ norm_text = None
    /\ norm_result = None
    /\ recipe_url = None
    /\ site = NoSite
    /\ recipe_response = NoRecipeResponse
    /\ recipe_exception = None
    /\ attributes = ServiceAttributes
    /\ working = None
    /\ call = "none"
    /\ argument = None
    /\ returned = None

\* IngredientService.parse_ingredient(request), main.py line 119
ParseIngredient ==
    /\ pc = "request"
    /\ ingredient_string # None
    /\ \E r \in {parse_ingredient(ingredient_string)} :
           /\ parts' = r.parts
           /\ response' = r.response
           /\ exception' = r.exception
    /\ pc' = "done"
    /\ UNCHANGED <<ingredient_string, norm_text, norm_result,
                   recipe_url, site, recipe_response, recipe_exception,
                   call, argument, returned,
                   attributes, working>>

Next == ParseIngredient

Spec == Init /\ [][Next]_vars

\* a text is about to be normalized
InitNormalize ==
    /\ pc = "request"
    /\ ingredient_string = None
    /\ parts = NotCalled
    /\ response = NoResponse
    /\ exception = None
    /\ norm_text \in NormTexts
    /\ norm_result = None
    /\ recipe_url = None
    /\ site = NoSite
    /\ recipe_response = NoRecipeResponse
    /\ recipe_exception = None
    /\ attributes = ServiceAttributes
    /\ working = None
    /\ call = "none"
    /\ argument = None
    /\ returned = None

\* IngredientService._normalize_fractions(text)
NormalizeFractions ==
    /\ pc = "request"
    /\ norm_text # None
    /\ norm_result' = _normalize_fractions(norm_text)
    /\ pc' = "done"
    /\ UNCHANGED <<ingredient_string, parts, response, exception, norm_text,
                   recipe_url, site, recipe_response, recipe_exception,
                   call, argument, returned,
                   attributes, working>>

NextNormalize == NormalizeFractions

SpecNormalize == InitNormalize /\ [][NextNormalize]_vars

\* a POST /parse-recipe request has arrived
InitRecipe ==
    /\ pc = "request"
    /\ ingredient_string = None
    /\ parts = NotCalled
    /\ response = NoResponse
    /\ exception = None
    /\ norm_text = None
    /\ norm_result = None
    /\ recipe_url \in Urls
    /\ site \in Sites
    /\ recipe_response = NoRecipeResponse
    /\ recipe_exception = None
    /\ attributes = ServiceAttributes
    /\ working = None
    /\ call = "none"
    /\ argument = None
    /\ returned = None

\* RecipeService.parse_recipe(request), main.py line 90
ParseRecipe ==
    /\ pc = "request"
    /\ recipe_url # None
    /\ \E r \in {parse_recipe(recipe_url, site)} :
           /\ recipe_response' = r.response
           /\ recipe_exception' = r.exception
    /\ pc' = "done"
    /\ UNCHANGED <<ingredient_string, parts, response, exception, norm_text, norm_result,
                   recipe_url, site, call, argument, returned,
                   attributes, working>>

NextRecipe == ParseRecipe

SpecRecipe == InitRecipe /\ [][NextRecipe]_vars

\* a helper function is about to be called on its own
InitHelpers ==
    /\ pc = "request"
    /\ ingredient_string = None
    /\ parts = NotCalled
    /\ response = NoResponse
    /\ exception = None
    /\ norm_text = None
    /\ norm_result = None
    /\ recipe_url = None
    /\ site = NoSite
    /\ recipe_response = NoRecipeResponse
    /\ recipe_exception = None
    /\ attributes = ServiceAttributes
    /\ working = None
    /\ returned = None
    /\ \/ call = "_estimate_effort" /\ argument \in EffortArguments
       \/ call = "_parse_iso_duration" /\ argument \in IsoArguments
       \/ call = "_extract_time_value" /\ argument \in TimeValueArguments
       \/ call = "suggest_meals_for_day" /\ argument \in ChatArguments

\* RecipeService._estimate_effort(total_time_minutes)
EstimateEffort ==
    /\ pc = "request"
    /\ call = "_estimate_effort"
    /\ returned' = _estimate_effort(argument)
    /\ pc' = "done"
    /\ UNCHANGED <<ingredient_string, parts, response, exception, norm_text, norm_result,
                   recipe_url, site, recipe_response, recipe_exception, call, argument,
                   attributes, working>>

\* RecipeService._parse_iso_duration(duration)
ParseIsoDuration ==
    /\ pc = "request"
    /\ call = "_parse_iso_duration"
    /\ returned' = _parse_iso_duration(argument)
    /\ pc' = "done"
    /\ UNCHANGED <<ingredient_string, parts, response, exception, norm_text, norm_result,
                   recipe_url, site, recipe_response, recipe_exception, call, argument,
                   attributes, working>>

\* RecipeService._extract_time_value(soup, time_type)
ExtractTimeValue ==
    /\ pc = "request"
    /\ call = "_extract_time_value"
    /\ returned' = _extract_time_value(argument.doc, argument.time_type)
    /\ pc' = "done"
    /\ UNCHANGED <<ingredient_string, parts, response, exception, norm_text, norm_result,
                   recipe_url, site, recipe_response, recipe_exception, call, argument,
                   attributes, working>>

\* MealPlanChatService.suggest_meals_for_day(request, access_token)
SuggestMealsForDay ==
    /\ pc = "request"
    /\ call = "suggest_meals_for_day"
    /\ returned' = suggest_meals_for_day(argument.request, argument.llm)
    /\ pc' = "done"
    /\ UNCHANGED <<ingredient_string, parts, response, exception, norm_text, norm_result,
                   recipe_url, site, recipe_response, recipe_exception, call, argument,
                   attributes, working>>

NextHelpers == EstimateEffort \/ ParseIsoDuration \/ ExtractTimeValue \/ SuggestMealsForDay

SpecHelpers == InitHelpers /\ [][NextHelpers]_vars


\* a POST /ingredient-metadata request has arrived
InitMetadata ==
    /\ pc = "request"
    /\ ingredient_string = None
    /\ parts = NotCalled
    /\ response = NoResponse
    /\ exception = None
    /\ norm_text = None
    /\ norm_result = None
    /\ recipe_url = None
    /\ site = NoSite
    /\ recipe_response = NoRecipeResponse
    /\ recipe_exception = None
    /\ attributes = ServiceAttributes
    /\ working = None
    /\ call = "get_ingredient_metadata"
    /\ argument \in Authorizations
    /\ returned = None

\* get_ingredient_metadata(request_body, request), main.py lines 138-170
GetIngredientMetadata ==
    /\ pc = "request"
    /\ call = "get_ingredient_metadata"
    /\ \E service \in ServiceOutcomes : returned' = get_ingredient_metadata(argument, service)
    /\ pc' = "done"
    /\ UNCHANGED <<ingredient_string, parts, response, exception, norm_text, norm_result,
                   recipe_url, site, recipe_response, recipe_exception, call, argument,
                   attributes, working>>

NextMetadata == GetIngredientMetadata

SpecMetadata == InitMetadata /\ [][NextMetadata]_vars

\* A POST request has arrived at one of the endpoints that call an LLM
InitLlmEndpoints ==
    /\ pc = "request"
    /\ ingredient_string = None
    /\ parts = NotCalled
    /\ response = NoResponse
    /\ exception = None
    /\ norm_text = None
    /\ norm_result = None
    /\ recipe_url = None
    /\ site = NoSite
    /\ recipe_response = NoRecipeResponse
    /\ recipe_exception = None
    /\ attributes = ServiceAttributes
    /\ working = None
    /\ call \in LlmEndpoints
    /\ argument \in [authorization : Authorizations, llm : LlmOutcomes]
    /\ returned = None

\* get_ingredient_metadata, chat_meal_plan_day and suggest_ingredients of main.py
AnswerLlmEndpoint ==
    /\ pc = "request"
    /\ call \in LlmEndpoints
    /\ returned' = llm_endpoint(call, argument.authorization, argument.llm)
    /\ pc' = "done"
    /\ UNCHANGED <<ingredient_string, parts, response, exception, norm_text, norm_result,
                   recipe_url, site, recipe_response, recipe_exception, call, argument,
                   attributes, working>>

NextLlmEndpoints == AnswerLlmEndpoint

SpecLlmEndpoints == InitLlmEndpoints /\ [][NextLlmEndpoints]_vars
\* NumCalls POST /parse-ingredient requests have arrived; their calls of
\* parse_ingredient run in any interleaving of their steps
InitConcurrent ==
    /\ pc = [c \in CallIds |-> "request"]
    /\ ingredient_string = None
    /\ parts = NotCalled
    /\ response = NoResponse
    /\ exception = None
    /\ norm_text = None
    /\ norm_result = None
    /\ recipe_url = None
    /\ site = NoSite
    /\ recipe_response = NoRecipeResponse
    /\ recipe_exception = None
    /\ call = "parse_ingredient"
    /\ argument \in [CallIds -> ConcurrentLines]
    /\ returned = [c \in CallIds |-> NoResponse]
    /\ attributes = ServiceAttributes
    /\ working = [c \in CallIds |-> NoWorking]

\* Lines 106-115: the input is stripped, and answered at once when too short
StripInput(c) ==
    /\ pc[c] = "request"
    /\ \E s \in {strip(argument[c])} :
           /\ working' = [working EXCEPT ![c].ingredient_str = s]
           /\ returned' = IF TooShort(s) THEN [returned EXCEPT ![c] = Unparsed(s)] ELSE returned
           /\ pc' = [pc EXCEPT ![c] = IF TooShort(s) THEN "done" ELSE "normalize"]
    /\ UNCHANGED <<ingredient_string, parts, response, exception, norm_text, norm_result,
                   recipe_url, site, recipe_response, recipe_exception, call, argument,
                   attributes>>

\* Line 151: text = self._normalize_fractions(ingredient_str.strip())
NormalizeInput(c) ==
    /\ pc[c] = "normalize"
    /\ working' = [working EXCEPT ![c].text =
                       NormalizeWith(attributes.UNICODE_FRACTIONS, strip(working[c].ingredient_str), 1)]
    /\ pc' = [pc EXCEPT ![c] = "quantity"]
    /\ UNCHANGED <<ingredient_string, parts, response, exception, norm_text, norm_result,
                   recipe_url, site, recipe_response, recipe_exception, call, argument, returned,
                   attributes>>

\* Lines 158-194: the pinch case or the quantity
TakeQuantity(c) ==
    /\ pc[c] = "quantity"
    /\ \E r \in {QuantityStep(working[c].text)} :
           /\ working' = [working EXCEPT ![c].q = r.q, ![c].p = r.p]
           /\ pc' = [pc EXCEPT ![c] = r.next]
    /\ UNCHANGED <<ingredient_string, parts, response, exception, norm_text, norm_result,
                   recipe_url, site, recipe_response, recipe_exception, call, argument, returned,
                   attributes>>

\* Lines 196-225: the unit, looked up in self.UNITS, and the name
TakeUnit(c) ==
    /\ pc[c] = "unit"
    /\ \E u \in {UnitWordsIn(attributes.UNITS, working[c].q.text, split(working[c].q.text))} :
           /\ working' = [working EXCEPT ![c].p = NameParts(working[c].q.amount, u)]
           /\ attributes' = [attributes EXCEPT !.UNITS = UnitsAfter(attributes.UNITS, u.unit)]
    /\ pc' = [pc EXCEPT ![c] = "respond"]
    /\ UNCHANGED <<ingredient_string, parts, response, exception, norm_text, norm_result,
                   recipe_url, site, recipe_response, recipe_exception, call, argument, returned>>

\* Lines 121-139: the response from the parts, or from the except branch
Respond(c) ==
    /\ pc[c] = "respond"
    /\ returned' = [returned EXCEPT ![c] = Tried(working[c].ingredient_str, working[c].p).response]
    /\ pc' = [pc EXCEPT ![c] = "done"]
    /\ UNCHANGED <<ingredient_string, parts, response, exception, norm_text, norm_result,
                   recipe_url, site, recipe_response, recipe_exception, call, argument,
                   attributes, working>>

NextConcurrent ==
    \E c \in CallIds :
        StripInput(c) \/ NormalizeInput(c) \/ TakeQuantity(c) \/ TakeUnit(c) \/ Respond(c)

SpecConcurrent == InitConcurrent /\ [][NextConcurrent]_vars

-----------------------------------------------------------------------------
(* Properties of parse_ingredient, checked under Spec *)

\* the call has returned
Done == pc = "done" /\ ingredient_string # None
\* the trimmed input, and the text _parse_ingredient_parts works on
Trimmed == strip(ingredient_string)
Text == _normalize_fractions(Trimmed)
\* the quantity pattern's match on that text, when the special case does not apply
Qty == QuantityMatch(Text)
IsScalar(m) == m.matched /\ IndexOf(m.frac_or_num, "-") = 0
IsFractionLit(lit) == IndexOf(lit, "/") > 0
IsRange(m) == m.matched /\ IndexOf(m.frac_or_num, "-") > 0

AllDigits(s) == s # <<>> /\ \A i \in 1..Len(s) : IsDigit(s[i])
\* digits "." digits
IsDecimalStr(s) ==
    LET dot == IndexOf(s, ".")
    IN  dot > 1 /\ dot < Len(s) /\ AllDigits(SubSeq(s, 1, dot - 1)) /\ AllDigits(From(s, dot))
\* a decimal string cut after its fourth decimal place
DecimalHead(s) == IF Len(s) > IndexOf(s, ".") + 4 THEN SubSeq(s, 1, IndexOf(s, ".") + 4) ELSE s
\* a/b < c/d and a/b <= c/d for quotients with positive denominators
Less(a, b) == a.n * b.d < b.n * a.d
LessEq(a, b) == a.n * b.d <= b.n * a.d
\* s without its whitespace
RECURSIVE Squeeze(_)
Squeeze(s) ==
    IF s = <<>> THEN <<>>
    ELSE (IF IsSpace(Head(s)) THEN <<>> ELSE <<Head(s)>>) \o Squeeze(Tail(s))
IsSuffix(x, s) == Len(x) <= Len(s) /\ SubSeq(s, Len(s) - Len(x) + 1, Len(s)) = x

\* C1: parse_ingredient never raises to its caller; when splitting the text raises
\* (a fraction with denominator 0), the result is not well-formed, its name is the
\* trimmed input and it has neither amount nor unit.
C1_NeverRaises ==
    Done =>
        /\ exception = None
        /\ (parts.called /\ parts.raised) =>
               /\ response.is_well_formed = FALSE
               /\ response.name = Trimmed
               /\ response.amount = None
               /\ response.unit = None

C1_Witness ==
    /\ Done
    /\ ingredient_string = <<"1", "/", "0", " ", "c", "u", "p", " ", "s", "u", "g", "a", "r">>
    /\ parts.raised
    /\ response.name = ingredient_string

\* C2: is_well_formed is true exactly when a non-empty name remained after the
\* extraction and an amount or a unit was extracted; a result without amount and
\* without unit is never well-formed.
C2_WellFormedIff ==
    Done =>
        /\ response.is_well_formed <=>
               /\ parts.called /\ ~parts.raised
               /\ parts.name # None /\ parts.name # <<>>
               /\ (parts.amount # None \/ parts.unit # None)
        /\ response.is_well_formed => (response.amount # None \/ response.unit # None)

C2_Witness ==
    /\ Done
    /\ parts.called
    /\ parts.name # None
    /\ parts.amount = None
    /\ parts.unit = None
    /\ ~response.is_well_formed

\* C3 as claimed: raw_text is the original, untouched input, surrounding whitespace
\* included.
C3_RawTextIsInput == Done => response.raw_text = ingredient_string

\* C3 amended: raw_text is the input with its leading and trailing whitespace
\* removed, and nothing else changed (no normalization, no extraction).
C3_RawTextIsTrimmedInput ==
    Done =>
        /\ response.raw_text = Trimmed
        /\ (ingredient_string = <<>>
               \/ (~IsSpace(ingredient_string[1]) /\ ~IsSpace(ingredient_string[Len(ingredient_string)])))
               => response.raw_text = ingredient_string

C3_Witness ==
    /\ Done
    /\ ingredient_string = <<" ">> \o <<"2", "U+00BD", " ", "c", "u", "p", "s", " ", "f", "l", "o", "u", "r">> \o <<" ", "\t">>
    /\ response.raw_text = <<"2", "U+00BD", " ", "c", "u", "p", "s", " ", "f", "l", "o", "u", "r">>
    /\ response.is_well_formed

\* C4: an input whose trimmed form is shorter than 2 characters gives
\* is_well_formed = false, raw_text = the trimmed input, no amount and no unit, and
\* neither quantity nor unit extraction is attempted.
C4_ShortInput ==
    (Done /\ Len(Trimmed) < 2) =>
        /\ response.is_well_formed = FALSE
        /\ response.raw_text = Trimmed
        /\ response.amount = None
        /\ response.unit = None
        /\ ~parts.called

C4_Witness ==
    /\ Done
    /\ ingredient_string = <<" ", "1", " ">>
    /\ response.raw_text = <<"1">>
    /\ response.amount = None

\* C5: for a text that starts with a mixed number 'w n/d', a fraction 'n/d' or a
\* bare integer or decimal, amount is the value (whole + fraction for the mixed
\* number) written as an integer string when it has no fractional remainder and as
\* a decimal string of that value otherwise; '2 1/2 cups all-purpose flour' gives
\* amount '2.5', unit 'cups', name 'all-purpose flour', well-formed.
C5_Value ==
    IF IsFractionLit(Qty.frac_or_num)
    THEN Plus(WholeTotal(Qty.whole_part), FractionOf(Qty.frac_or_num))
    ELSE FloatOf(Qty.frac_or_num)
C5_Case ==
    /\ Done /\ parts.called /\ ~parts.raised
    /\ ~PinchMatch(Text).matched
    /\ IsScalar(Qty)
    /\ IsFractionLit(Qty.frac_or_num) \/ Qty.whole_part = None
C5_ScalarAmount ==
    /\ C5_Case =>
           IF C5_Value.n % C5_Value.d = 0
           THEN AllDigits(parts.amount) /\ ToInt(parts.amount) * C5_Value.d = C5_Value.n
           ELSE /\ IsDecimalStr(parts.amount)
                /\ LessEq(FloatOf(DecimalHead(parts.amount)), C5_Value)
                /\ Less(C5_Value, [n |-> FloatOf(DecimalHead(parts.amount)).n + 1,
                                    d |-> FloatOf(DecimalHead(parts.amount)).d])
                /\ DecimalHead(parts.amount) = parts.amount => ~Less(FloatOf(parts.amount), C5_Value)
    /\ (Done /\ ingredient_string = <<"2", " ", "1", "/", "2", " ", "c", "u", "p", "s", " ", "a", "l", "l", "-", "p", "u", "r", "p", "o", "s", "e", " ", "f", "l", "o", "u", "r">>) =>
           response = [name |-> <<"a", "l", "l", "-", "p", "u", "r", "p", "o", "s", "e", " ", "f", "l", "o", "u", "r">>, amount |-> <<"2", ".", "5">>, unit |-> <<"c", "u", "p", "s">>,
                       is_well_formed |-> TRUE, raw_text |-> ingredient_string]

C5_Witness ==
    /\ C5_Case
    /\ ingredient_string = <<"2", " ", "1", "/", "2", " ", "c", "u", "p", "s", " ", "a", "l", "l", "-", "p", "u", "r", "p", "o", "s", "e", " ", "f", "l", "o", "u", "r">>
    /\ Qty.whole_part = <<"2">>
    /\ parts.amount = <<"2", ".", "5">>

\* C6: when the leading quantity is a range (two numbers joined by '-', blanks
\* allowed around it), amount is the range text exactly as written, trimmed, and
\* never a number computed from it; '1-2 medium onions, diced' gives amount '1-2',
\* unit 'medium', name 'onions, diced'.
C6_Case ==
    /\ Done /\ parts.called /\ ~parts.raised
    /\ ~PinchMatch(Text).matched
    /\ IsRange(Qty)
C6_RangeLiteral ==
    /\ C6_Case =>
           /\ parts.amount # None
           /\ Len(parts.amount) <= Qty.end
           /\ parts.amount = SubSeq(Text, Qty.end - Len(parts.amount) + 1, Qty.end)
           /\ IsDigit(parts.amount[1]) /\ IsDigit(parts.amount[Len(parts.amount)])
           /\ IndexOf(parts.amount, "-") > 1
           /\ Qty.whole_part = None => Len(parts.amount) = Qty.end
           /\ Qty.whole_part # None =>
                  Squeeze(SubSeq(Text, 1, Qty.end - Len(parts.amount))) = Qty.whole_part
    /\ (Done /\ ingredient_string = <<"1", "-", "2", " ", "m", "e", "d", "i", "u", "m", " ", "o", "n", "i", "o", "n", "s", ",", " ", "d", "i", "c", "e", "d">>) =>
           response = [name |-> <<"o", "n", "i", "o", "n", "s", ",", " ", "d", "i", "c", "e", "d">>, amount |-> <<"1", "-", "2">>, unit |-> <<"m", "e", "d", "i", "u", "m">>,
                       is_well_formed |-> TRUE, raw_text |-> ingredient_string]

C6_Witness ==
    /\ C6_Case
    /\ Text = <<"1", " ", "-", " ", "2", " ", "c", "u", "p", "s", " ", "f", "l", "o", "u", "r">>
    /\ parts.amount = <<"1", " ", "-", " ", "2">>

\* C7: for a text 'a <pinch|dash> of <X>', in any letter case and with any runs of
\* whitespace, amount is '1', unit is the keyword in lower case, and name is X
\* trimmed: no unit and no 'of' is stripped from X.
C7_Case ==
    /\ Done /\ parts.called
    /\ PinchOfMatch(Text).matched
C7_PinchOf ==
    C7_Case =>
        /\ parts.amount = <<"1">>
        /\ parts.unit \in {<<"p", "i", "n", "c", "h">>, <<"d", "a", "s", "h">>}
        /\ parts.name # None /\ parts.name # <<>>
        /\ ~IsSpace(parts.name[1])
        /\ IsSuffix(parts.name, Text)
        /\ IsSpace(Text[Len(Text) - Len(parts.name)])
        /\ Squeeze(lower(SubSeq(Text, 1, Len(Text) - Len(parts.name)))) = <<"a">> \o parts.unit \o <<"o", "f">>
        /\ response.name = parts.name
        /\ response.unit = parts.unit
        /\ response.amount = <<"1">>

C7_Witness ==
    /\ C7_Case
    /\ ingredient_string = <<"A", "\t", "D", "a", "s", "h", " ", " ", "O", "f", " ", " ", "o", "f", " ", "s", "a", "l", "t">>
    /\ parts.unit = <<"d", "a", "s", "h">>
    /\ parts.name = <<"o", "f", " ", "s", "a", "l", "t">>

\* C8: in unit extraction, when at least two tokens remain and the lower-cased
\* first two tokens (trailing '.', ',' or ';' stripped) are a known two-word unit,
\* that unit is chosen and both tokens are consumed; '1 fluid ounce lemon juice'
\* gives unit 'fluid ounce' and name 'lemon juice'.
C8_Words == split(ExtractQuantity(Text).text)
C8_TwoWords == rstrip(lower(C8_Words[1]) \o <<" ">> \o lower(C8_Words[2]), Punctuation)
C8_Case ==
    /\ Done /\ parts.called /\ ~parts.raised
    /\ ~PinchMatch(Text).matched
    /\ Len(C8_Words) >= 2
    /\ C8_TwoWords \in {u \in UNITS : IndexOf(u, " ") > 0}
C8_TwoWordUnit ==
    /\ C8_Case =>
           /\ parts.unit = C8_TwoWords
           /\ IF Len(C8_Words) = 2 THEN parts.name = None
              ELSE /\ parts.name # None
                   /\ IsSuffix(parts.name, join(C8_Words, 2))
                   /\ (parts.name # join(C8_Words, 2) => lower(C8_Words[3]) = <<"o", "f">>)
    /\ (Done /\ ingredient_string = <<"1", " ", "f", "l", "u", "i", "d", " ", "o", "u", "n", "c", "e", " ", "l", "e", "m", "o", "n", " ", "j", "u", "i", "c", "e">>) =>
           /\ response.unit = <<"f", "l", "u", "i", "d", " ", "o", "u", "n", "c", "e">>
           /\ response.name = <<"l", "e", "m", "o", "n", " ", "j", "u", "i", "c", "e">>

C8_Witness ==
    /\ C8_Case
    /\ ingredient_string = <<"1", " ", "f", "l", "u", "i", "d", " ", "o", "u", "n", "c", "e", " ", "l", "e", "m", "o", "n", " ", "j", "u", "i", "c", "e">>
    /\ parts.unit = <<"f", "l", "u", "i", "d", " ", "o", "u", "n", "c", "e">>
    /\ parts.name = <<"l", "e", "m", "o", "n", " ", "j", "u", "i", "c", "e">>

-----------------------------------------------------------------------------
(* Properties of _normalize_fractions, checked under SpecNormalize *)

Glyphs == {UNICODE_FRACTIONS[i][1] : i \in 1..Len(UNICODE_FRACTIONS)}
HasGlyph(s) == \E i \in 1..Len(s) : s[i] \in Glyphs
\* the ASCII form of a glyph, the character itself otherwise
AsciiOf(c) ==
    IF c \in Glyphs
    THEN UNICODE_FRACTIONS[CHOOSE i \in 1..Len(UNICODE_FRACTIONS) : UNICODE_FRACTIONS[i][1] = c][2]
    ELSE <<c>>
RECURSIVE EachReplaced(_)
EachReplaced(s) == IF s = <<>> THEN <<>> ELSE AsciiOf(Head(s)) \o EachReplaced(Tail(s))

\* C9: the normalizer is total and idempotent: every table glyph is replaced by
\* its n/d form and every other character is kept, so the output has no table
\* glyph, a text without glyphs comes back unchanged, and normalizing the output
\* again changes nothing.
C9_Normalizer ==
    (pc = "done" /\ norm_text # None) =>
        /\ norm_result = EachReplaced(norm_text)
        /\ ~HasGlyph(norm_result)
        /\ ~HasGlyph(norm_text) => norm_result = norm_text
        /\ _normalize_fractions(norm_result) = norm_result

C9_Witness ==
    /\ pc = "done"
    /\ norm_text = <<"U+00BD", "U+00BD">>
    /\ norm_result = <<"1", "/", "2", "1", "/", "2">>

-----------------------------------------------------------------------------
(* C10: parse_recipe never raises, and when the fetch or a statement of the   *)
(* extraction raises, the response carries the url of the request and the     *)
(* description "Failed to parse recipe: " followed by the failure reason;     *)
(* title, total_time_minutes and effort are absent and ingredients is empty,  *)
(* whatever had been extracted before the failure.                            *)
C10_DegradedResponse ==
    (pc = "done" /\ recipe_url # None) =>
        /\ recipe_exception = None
        /\ site.raises # "none" =>
            /\ recipe_response.url = recipe_url
            /\ recipe_response.description = FailurePrefix \o site.message
            /\ recipe_response.title = None
            /\ recipe_response.total_time_minutes = NoMinutes
            /\ recipe_response.effort = NoEffort
            /\ recipe_response.ingredients = <<>>

\* the int() of line 216 raised on a page whose title had been extracted
C10_Witness ==
    /\ pc = "done"
    /\ site.raises = "time"
    /\ site.message # <<>>
    /\ _extract_title(site.doc) \notin {None, <<>>}
    /\ recipe_response.title = None
    /\ recipe_response.url = recipe_url
    /\ recipe_response.description = FailurePrefix \o site.message

-----------------------------------------------------------------------------
(* Properties of parse_recipe, checked under SpecRecipe *)

\* a parse_recipe call has returned without having met a failure
RecipeDone == pc = "done" /\ recipe_url # None /\ site.raises = "none"

\* ingredients has one entry per line, in the order of the lines, each with the
\* line as its raw_text
OnePerLine(ingredients, lines) ==
    /\ Len(ingredients) = Len(lines)
    /\ \A i \in 1..Len(lines) : ingredients[i].raw_text = lines[i]

\* C11: on a successful parse the ingredients sequence has exactly one entry per
\* extracted raw line, in extraction order, and the i-th entry's raw_text is the
\* i-th line; a line whose parsing fails is kept like the others.
C11_OnePerLine ==
    RecipeDone => OnePerLine(recipe_response.ingredients, _extract_ingredients(site.doc))

\* three lines were extracted and the first, whose fraction has denominator 0, did
\* not parse
C11_Witness ==
    /\ RecipeDone
    /\ Len(recipe_response.ingredients) = 3
    /\ recipe_response.ingredients[1].raw_text = <<"1", "/", "0", " ", "c", "u", "p", " ", "s", "u", "g", "a", "r">>
    /\ ~recipe_response.ingredients[1].is_well_formed
    /\ recipe_response.ingredients[2].amount = <<"2">>
    /\ recipe_response.ingredients[3].raw_text = <<"s", "a", "l", "t">>

\* C12: in every response of parse_recipe, successful or degraded, effort is absent
\* if and only if total_time_minutes is absent.
C12_EffortIffTime ==
    (pc = "done" /\ recipe_url # None) =>
        (recipe_response.effort = NoEffort <=> recipe_response.total_time_minutes = NoMinutes)

\* a successful parse of a page whose times add up to more than an hour
C12_Witness ==
    /\ RecipeDone
    /\ recipe_response.total_time_minutes = 90
    /\ recipe_response.effort = "HIGH"

\* a number of minutes was extracted for a time_type
WasExtracted(minutes) == minutes # NoMinutes /\ minutes > 0
Counted(minutes) == IF WasExtracted(minutes) THEN minutes ELSE 0
Resolved(result, prep_time, cook_time, total_time) ==
    /\ result # 0
    /\ result = NoMinutes \/ result > 0
    /\ WasExtracted(total_time) => result = total_time
    /\ (~WasExtracted(total_time) /\ (WasExtracted(prep_time) \/ WasExtracted(cook_time)))
           => result = Counted(prep_time) + Counted(cook_time)
    /\ (~WasExtracted(total_time) /\ ~WasExtracted(prep_time) /\ ~WasExtracted(cook_time))
           => result = NoMinutes

\* C14: an extracted totalTime is the total whatever prepTime and cookTime are;
\* without it the total is the sum of the extracted ones of prepTime and cookTime,
\* an absent one counting 0; without any the total is absent. The total is never 0.
C14_TotalResolution ==
    RecipeDone =>
        Resolved(recipe_response.total_time_minutes,
                 _extract_time_value(site.doc, "prepTime"),
                 _extract_time_value(site.doc, "cookTime"),
                 _extract_time_value(site.doc, "totalTime"))

C14_Witness ==
    /\ RecipeDone
    /\ site.doc.times["totalTime"].datetime = <<"P", "T", "1", "H", "3", "0", "M">>
    /\ site.doc.times["prepTime"].datetime = <<"P", "T", "0", "M">>
    /\ site.doc.times["cookTime"].present
    /\ site.doc.times["cookTime"].datetime = None
    /\ recipe_response.total_time_minutes = 90

\* a source of a field: in the document and not blank
Filled(value) == value # None /\ strip(value) # <<>>
\* every source is either missing from the document or filled
AllFilled(sources) == \A i \in 1..Len(sources) : sources[i] = None \/ Filled(sources[i])
\* the trimmed value of the first source in the document, None when there is none
RECURSIVE FirstFilled(_)
FirstFilled(sources) ==
    IF sources = <<>> THEN None
    ELSE IF Head(sources) # None THEN strip(Head(sources))
    ELSE FirstFilled(Tail(sources))
TakenFrom(value, sources) == AllFilled(sources) => value = FirstFilled(sources)

\* C16: the title is taken from og:title, else the itemprop=name element, else the
\* first h1, else the <title> tag, else it is absent; the description from
\* og:description, else meta name=description, else the itemprop=description
\* element, else it is absent. A document with only a <title> tag has that tag's
\* text as title. (The sources of the document are each missing or not blank.)
C16_PriorityCascade ==
    RecipeDone =>
        /\ TakenFrom(recipe_response.title,
                     <<site.doc.og_title, site.doc.name_text, site.doc.h1_text, site.doc.title_text>>)
        /\ TakenFrom(recipe_response.description,
                     <<site.doc.og_description, site.doc.meta_description, site.doc.description_text>>)
        /\ (site.doc.og_title = None /\ site.doc.name_text = None /\ site.doc.h1_text = None
              /\ site.doc.title_text = <<"S", "i", "t", "e">>)
               => recipe_response.title = <<"S", "i", "t", "e">>

\* the itemprop=name element wins over the h1 heading and the <title> tag
C16_Witness ==
    /\ RecipeDone
    /\ site.doc.og_title = None
    /\ site.doc.name_text = <<"S", "t", "e", "w">>
    /\ site.doc.h1_text = <<" ", "P", "i", "e">>
    /\ site.doc.title_text = <<"S", "i", "t", "e">>
    /\ recipe_response.title = <<"S", "t", "e", "w">>

\* the trimmed value of the first filled source, None when no source is filled
RECURSIVE SkippingBlank(_)
SkippingBlank(sources) ==
    IF sources = <<>> THEN None
    ELSE IF Filled(Head(sources)) THEN strip(Head(sources))
    ELSE SkippingBlank(Tail(sources))

\* C17: in the cascades of title and description only a non-empty result wins: a
\* source whose value is empty or blank is skipped in favour of the next one, so
\* title and description are each absent or a non-empty string, never the empty
\* string.
C17_NonEmptyWins ==
    RecipeDone =>
        /\ recipe_response.title # <<>>
        /\ recipe_response.description # <<>>
        /\ recipe_response.title =
               SkippingBlank(<<site.doc.og_title, site.doc.name_text, site.doc.h1_text,
                               site.doc.title_text>>)
        /\ recipe_response.description =
               SkippingBlank(<<site.doc.og_description, site.doc.meta_description,
                               site.doc.description_text>>)

\* a blank og:title content has won over a filled h1 heading
C17_Witness ==
    /\ RecipeDone
    /\ site.doc.og_title = <<" ">>
    /\ site.doc.h1_text = <<" ", "P", "i", "e">>
    /\ recipe_response.title = <<>>

\* the trimmed texts that are not empty, in order
NonBlankLines(texts) ==
    SelectSeq([i \in 1..Len(texts) |-> strip(texts[i])], LAMBDA line : line # <<>>)
\* the accepted lines of the k-th class name: not empty, not the 'Ingredients' header
ClassLines(doc, k) ==
    SelectSeq(NonBlankLines(TextsOfClass(doc.classed, common_classes[k])),
              LAMBDA line : ~HasExactAt(line, 1, <<"I", "n", "g", "r", "e", "d", "i", "e", "n", "t", "s">>))
NoClassLines(doc) == \A k \in 1..Len(common_classes) : ClassLines(doc, k) = <<>>
RawTexts(ingredients) == [i \in 1..Len(ingredients) |-> ingredients[i].raw_text]
StrictPriority(lines, doc) ==
    /\ NonBlankLines(doc.recipe_ingredient) # <<>> => lines = NonBlankLines(doc.recipe_ingredient)
    /\ (NonBlankLines(doc.recipe_ingredient) = <<>> /\ ~NoClassLines(doc)) =>
           \E k \in 1..Len(common_classes) :
               /\ ClassLines(doc, k) # <<>>
               /\ \A j \in 1..(k - 1) : ClassLines(doc, j) = <<>>
               /\ lines = ClassLines(doc, k)
    /\ (NonBlankLines(doc.recipe_ingredient) = <<>> /\ NoClassLines(doc)) =>
           lines = IF doc.section_list = None THEN <<>> ELSE NonBlankLines(doc.section_list)

\* C18: the ingredient lines are the non-empty texts of the itemprop=recipeIngredient
\* elements in document order when there is one; otherwise the accepted lines of
\* the first class name of the fixed list that has one; otherwise those of the list
\* near an 'ingredients' text; otherwise none. Lines of two strategies are never
\* mixed.
C18_StrictPriority ==
    RecipeDone => StrictPriority(RawTexts(recipe_response.ingredients), site.doc)

\* the recipeIngredient elements are blank: the lines are those of the first class
\* name, and the list near the 'ingredients' text adds nothing
C18_Witness ==
    /\ RecipeDone
    /\ site.doc.recipe_ingredient = <<<<" ">>>>
    /\ site.doc.section_list # None
    /\ site.doc.section_list # <<>>
    /\ RawTexts(recipe_response.ingredients)
           = <<<<"1", "/", "2", " ", "t", "s", "p", " ", "s", "a", "l", "t">>, <<"2", " ", "e", "g", "g", "s">>>>

-----------------------------------------------------------------------------
(* Properties of the helper functions, checked under SpecHelpers *)

\* the helper function fn has returned
Returned(fn) == pc = "done" /\ call = fn

\* C13: the effort estimator is total: absent gives absent, every value below 30
\* gives LOW, every value from 30 to 59 MEDIUM and every value of 60 or more HIGH
\* (29 LOW, 30 MEDIUM, 59 MEDIUM, 60 HIGH).
C13_EffortClasses ==
    Returned("_estimate_effort") =>
        /\ returned \in {NoEffort, "LOW", "MEDIUM", "HIGH"}
        /\ returned = NoEffort <=> argument = NoMinutes
        /\ returned = "LOW" <=> (argument # NoMinutes /\ argument < 30)
        /\ returned = "MEDIUM" <=> (30 <= argument /\ argument <= 59)
        /\ returned = "HIGH" <=> argument >= 60
        /\ argument = 29 => returned = "LOW"
        /\ argument = 30 => returned = "MEDIUM"
        /\ argument = 59 => returned = "MEDIUM"
        /\ argument = 60 => returned = "HIGH"

C13_Witness ==
    /\ Returned("_estimate_effort")
    /\ argument = 30
    /\ returned = "MEDIUM"

\* the component counts 0 when it is not in the string
IsoCount(n) == IF n = NoMinutes THEN 0 ELSE n
StartsWithPT(s) == Len(s) >= 2 /\ s[1] = "P" /\ s[2] = "T"
IsoTotal(h, m) == IF 60 * IsoCount(h) + IsoCount(m) > 0 THEN 60 * IsoCount(h) + IsoCount(m) ELSE NoMinutes

\* C15: the ISO duration parser returns 60*h + m minutes for 'PT', an optional
\* '<h>H' and an optional '<m>M' (PT1H30M is 90, PT45M is 45), absent for a string
\* that does not start with 'PT', and absent when the total is 0.
C15_IsoDuration ==
    Returned("_parse_iso_duration") =>
        /\ ~StartsWithPT(argument) => returned = NoMinutes
        /\ \A h \in IsoHours, m \in IsoMinutes :
               argument = IsoDuration(<<"P", "T">>, h, m) => returned = IsoTotal(h, m)
        /\ returned # 0
        /\ argument = <<"P", "T", "1", "H", "3", "0", "M">> => returned = 90
        /\ argument = <<"P", "T", "4", "5", "M">> => returned = 45

C15_Witness ==
    /\ Returned("_parse_iso_duration")
    /\ argument = <<"P", "T", "1", "H", "3", "0", "M">>
    /\ returned = 90

-----------------------------------------------------------------------------
(* Properties of the /ingredient-metadata endpoint, checked under SpecMetadata *)

\* the header is exactly two whitespace-separated parts, the first 'bearer' in any case
BearerHeader(header) ==
    /\ header # None
    /\ Len(split(header)) = 2
    /\ lower(split(header)[1]) = <<"b", "e", "a", "r", "e", "r">>

\* C19: a request to /ingredient-metadata is rejected with HTTP 401 whenever the
\* Authorization header is missing or is not exactly two whitespace-separated
\* parts whose first part is 'bearer' in any case; otherwise the second part is
\* used as the access token.
C19_BearerOr401 ==
    Returned("get_ingredient_metadata") =>
        /\ ~BearerHeader(argument) =>
               (returned.status_code = 401 /\ returned.access_token = None)
        /\ BearerHeader(argument) =>
               (returned.status_code # 401 /\ returned.access_token = split(argument)[2])

C19_Witness ==
    /\ Returned("get_ingredient_metadata")
    /\ argument = <<"B", "e", "A", "r", "E", "r", "\t", "y", "a", "2", "9", ".", "A", "-", "b", " ">>
    /\ returned.status_code = 200
    /\ returned.access_token = <<"y", "a", "2", "9", ".", "A", "-", "b">>

-----------------------------------------------------------------------------
(* Properties of concurrent parse_ingredient calls, checked under SpecConcurrent *)

\* C20: parsing shares no mutable state: no step of a parse_ingredient call
\* modifies the unit vocabulary or the fraction table, and in every interleaving
\* of concurrent calls each call returns what it returns when it runs alone.
C20_NoSharedMutableState ==
    call = "parse_ingredient" =>
        /\ attributes = ServiceAttributes
        /\ \A c \in CallIds :
               pc[c] = "done" => returned[c] = parse_ingredient(argument[c]).response

\* two calls with the same unit in their lines: one has returned while the other is
\* between its look-up in UNITS and its response
C20_Witness ==
    /\ call = "parse_ingredient"
    /\ pc[1] = "respond"
    /\ working[1].p.unit = <<"c", "u", "p", "s">>
    /\ pc[2] = "done"
    /\ returned[2].unit = <<"c", "u", "p", "s">>
    /\ returned[2].is_well_formed
    /\ argument[1] # argument[2]

-----------------------------------------------------------------------------
(* Properties of _extract_time_value, checked under SpecHelpers *)

\* C21: the duration sub-strategy of one field returns absent unless it parsed a
\* strictly positive number of minutes: it never returns 0, whichever of its three
\* sources produced the value.
C21_NeverZero ==
    Returned("_extract_time_value") => (returned = NoMinutes \/ returned > 0)

\* the document-wide pattern found 'totaltime: 0 minutes' and 0 was returned
C21_Witness ==
    /\ Returned("_extract_time_value")
    /\ argument.time_type = "totalTime"
    /\ ~argument.doc.times["totalTime"].present
    /\ argument.doc.strings = <<<<"t", "o", "t", "a", "l", "t", "i", "m", "e", ":", " ", "0", " ", "m", "i", "n", "u", "t", "e", "s">>>>
    /\ returned = 0

\* what the datetime attribute and the text of the element give, NoMinutes when
\* the document has no such element or attribute
IsoSource(time_elem) ==
    IF time_elem.present /\ Truthy(time_elem.datetime)
    THEN _parse_iso_duration(time_elem.datetime) ELSE NoMinutes
TextSource(time_elem) ==
    IF time_elem.present THEN _parse_time_text(strip(time_elem.text)) ELSE NoMinutes
InFixedOrder(result, iso, text, pattern) ==
    /\ iso > 0 => result = iso
    /\ (iso <= 0 /\ text > 0) => result = text
    /\ (iso <= 0 /\ text <= 0) => result = pattern

\* C22: for one field the sources are consulted in a fixed order: the element's
\* ISO datetime attribute, then the element's text, then the document-wide text
\* pattern; a later source is used only when every earlier one gives no positive
\* number of minutes.
C22_FixedOrder ==
    Returned("_extract_time_value") =>
        InFixedOrder(returned,
                     IsoSource(argument.doc.times[argument.time_type]),
                     TextSource(argument.doc.times[argument.time_type]),
                     PatternTime(argument.doc, argument.time_type))

\* the three sources give 20, 25 and 120 minutes: the datetime attribute wins
C22_Witness ==
    /\ Returned("_extract_time_value")
    /\ argument.time_type = "cookTime"
    /\ argument.doc.times["cookTime"].datetime = <<"P", "T", "2", "0", "M">>
    /\ argument.doc.times["cookTime"].text = <<"2", "5", " ", "m", "i", "n", "s">>
    /\ PatternTime(argument.doc, "cookTime") = 120
    /\ returned = 20

-----------------------------------------------------------------------------
(* Properties of parse_ingredient, checked under Spec *)

\* the text starts with 'a pinch' or 'a dash' and does not go on with ' of <X>'
C23_Case ==
    /\ Done /\ parts.called
    /\ PinchMatch(Text).matched
    /\ ~PinchOfMatch(Text).matched

\* C23: for a text that starts with 'a pinch' or 'a dash' and does not go on with
\* ' of <X>', amount is '1', unit is 'pinch' (for 'dash' too) and name is the text
\* without its first two characters, trimmed: the keyword stays in the name.
C23_PinchWithoutOf ==
    C23_Case =>
        /\ parts.amount = <<"1">>
        /\ parts.unit = <<"p", "i", "n", "c", "h">>
        /\ parts.name = strip(SubSeq(Text, 3, Len(Text)))
        /\ HasWordAt(parts.name, 1, PinchMatch(Text).keyword)
        /\ response.amount = <<"1">>
        /\ response.unit = <<"p", "i", "n", "c", "h">>
        /\ response.name = parts.name

C23_Witness ==
    /\ C23_Case
    /\ ingredient_string = <<"a", " ", "d", "a", "s", "h", " ", "s", "a", "l", "t">>
    /\ response.unit = <<"p", "i", "n", "c", "h">>
    /\ response.name = <<"d", "a", "s", "h", " ", "s", "a", "l", "t">>

\* the quantity and unit extraction ran to its end: no special case, no exception
C24_Case ==
    /\ Done /\ parts.called /\ ~parts.raised
    /\ ~PinchMatch(Text).matched
\* the text that quantity and unit extraction left
C24_Remainder == ExtractUnit(ExtractQuantity(Text).text).text
\* text without one leading 'of' and the whitespace after it, trimmed
WithoutLeadingOf(text) ==
    IF Len(text) >= 3 /\ lower(SubSeq(text, 1, 2)) = <<"o", "f">> /\ IsSpace(text[3])
    THEN strip(SubSeq(text, 3, Len(text)))
    ELSE strip(text)
NameIs(cleaned) ==
    /\ cleaned # <<>> => (parts.name = cleaned /\ response.name = cleaned)
    /\ cleaned = <<>> => (parts.name = None /\ response.name = None)

\* C24: after quantity and unit extraction one leading 'of ' (in any case) is
\* stripped and the trimmed remainder is the name; when the remainder is empty
\* ('2 cups') the name of the result is absent, not filled with other text.
C24_NameCleanup ==
    C24_Case => NameIs(WithoutLeadingOf(C24_Remainder))

\* '2 cups' leaves no name, and the response carries the whole line as name
C24_Witness ==
    /\ C24_Case
    /\ ingredient_string = <<"2", " ", "c", "u", "p", "s">>
    /\ parts.name = None
    /\ response.name = <<"2", " ", "c", "u", "p", "s">>
    /\ ~response.is_well_formed

(* Properties of the LLM-backed endpoints, checked under SpecLlmEndpoints *)

\* a request with a bearer token whose LLM client cannot be built has been answered
C25_Case ==
    /\ pc = "done"
    /\ call \in LlmEndpoints
    /\ BearerHeader(argument.authorization)
    /\ argument.llm = "build_fails"

\* C25: on every LLM-backed endpoint, a failure to build the LLM client from the
\* supplied token reaches the client as HTTP 401, never as a 200 fallback or a 500
C25_BuildFailureIs401 == C25_Case => returned.status_code = 401

\* /ingredient-metadata answers 200 with the fallback metadata although the client
\* could not be built
C25_Witness ==
    /\ C25_Case
    /\ call = "/ingredient-metadata"
    /\ returned.status_code = 200
    /\ returned.fallback

(* Properties of suggest_meals_for_day, checked under SpecHelpers *)

FewestSuggestions == 3

\* C26: suggest_meals_for_day always returns between 3 and 5 ranked meal
\* suggestions, for every request and every LLM outcome
C26_ThreeToFive ==
    Returned("suggest_meals_for_day") =>
        /\ Len(returned.suggestions) >= FewestSuggestions
        /\ Len(returned.suggestions) <= MostSuggestions

\* the LLM call fails and the request has one available meal: the fallback has
\* one suggestion
C26_Witness ==
    /\ Returned("suggest_meals_for_day")
    /\ argument.llm.outcome = "invoke_fails"
    /\ Len(argument.request.available_meals) = 1
    /\ returned.fallback
    /\ Len(returned.suggestions) = 1

\* the history has a message of the assistant
HasAssistantReply(history) == \E i \in 1..Len(history) : history[i] = "assistant"

\* C30: suggest_meals_for_day uses the initial-suggestion prompt for every request
\* that has no earlier assistant reply to react to, including a request whose
\* conversation history is empty, and uses the follow-up prompt only when the
\* history contains earlier exchanges
C30_PromptChoice ==
    Returned("suggest_meals_for_day") =>
        /\ ~HasAssistantReply(argument.request.conversation_history) => returned.prompt = "initial"
        /\ returned.prompt = "followup" => argument.request.conversation_history # <<>>

\* a request with an empty conversation history is given the follow-up prompt
C30_Witness ==
    /\ Returned("suggest_meals_for_day")
    /\ argument.request.conversation_history = <<>>
    /\ returned.prompt = "followup"

(* Properties of the quantity of parse_ingredient, checked under Spec *)

\* quantity extraction has consumed a leading whole number that is not zero,
\* together with the fraction, number or range after it
C27_Case ==
    /\ Done
    /\ parts.called
    /\ ~parts.raised
    /\ ~PinchMatch(Text).matched
    /\ Qty.matched
    /\ Truthy(Qty.whole_part)
    /\ FloatOf(Qty.whole_part).n > 0

\* the amount of the same match had the whole number not been there
C27_AmountWithoutWhole == QuantityParts(Text, [Qty EXCEPT !.whole_part = None]).amount

\* C27: every number that quantity extraction removes from the front of the text
\* contributes to the reported amount: a leading whole number consumed together
\* with a following fraction, bare number or range is reflected in the amount, not
\* silently discarded
C27_WholeContributes ==
    C27_Case => (parts.amount # C27_AmountWithoutWhole /\ response.amount = parts.amount)

\* "1 2-3 cups": the whole number 1 is consumed and the amount is "2-3"
C27_Witness ==
    /\ C27_Case
    /\ ingredient_string = <<"1", " ", "2", "-", "3", " ", "c", "u", "p", "s">>
    /\ response.amount = <<"2", "-", "3">>
    /\ response.unit = <<"c", "u", "p", "s">>

\* a digit directly before the glyph of one half, and the same mixed number
\* written with a space and in ASCII
GlyphLine(a, tl) == <<Digit(a), "U+00BD">> \o tl
SpacedLine(a, tl) == <<Digit(a), " ", "1", "/", "2">> \o tl

\* the response and the parts are those of the call on the line other
SameAmountUnitName(other) ==
    /\ response.amount = other.response.amount
    /\ response.unit = other.response.unit
    /\ parts.name = other.parts.name

\* C28: a whole number written directly before a vulgar-fraction glyph with no
\* space ("2" and the glyph of one half, then " cups flour") is parsed to the same
\* amount, unit and name as the spaced ASCII mixed number ("2 1/2 cups flour"),
\* whose amount is "2.5"
C28_GlyphAsMixedNumber ==
    \A a \in 0..MaxDigit, tl \in QuantityTails :
        (Done /\ ingredient_string = GlyphLine(a, tl)) =>
            SameAmountUnitName(parse_ingredient(SpacedLine(a, tl)))

\* "2" and the glyph of one half before " cups flour": the amount is "10.5", from
\* the text "21/2 cups flour"
C28_Witness ==
    /\ Done
    /\ ingredient_string = GlyphLine(2, <<" ", "c", "u", "p", "s", " ", "f", "l", "o", "u", "r">>)
    /\ Text = <<"2", "1", "/", "2", " ", "c", "u", "p", "s", " ", "f", "l", "o", "u", "r">>
    /\ response.amount = <<"1", "0", ".", "5">>
    /\ response.unit = <<"c", "u", "p", "s">>
    /\ response.name = <<"f", "l", "o", "u", "r">>
    /\ parse_ingredient(SpacedLine(2, <<>>)).response.amount = <<"2", ".", "5">>

(* Properties of the unit of parse_ingredient, checked under Spec *)

\* C29: whenever parse_ingredient reports a unit, that unit is a lower-case member
\* of the fixed unit vocabulary UNITS, on every path including the pinch/dash
\* special case; the parser never reports a unit outside the vocabulary and never
\* alters the vocabulary
C29_UnitInVocabulary ==
    Done =>
        /\ response.unit # None =>
               (response.unit \in UNITS /\ response.unit = lower(response.unit))
        /\ parts.unit # None => (parts.unit \in UNITS /\ parts.unit = response.unit)
        /\ attributes.UNITS = UNITS

\* "1 Cup, flour" is reported with the unit "cup", and the vocabulary is as it was
C29_Witness ==
    /\ Done
    /\ ingredient_string = <<"1", " ", "C", "u", "p", ",", " ", "f", "l", "o", "u", "r">>
    /\ response.unit = <<"c", "u", "p">>
    /\ response.unit \in UNITS
    /\ attributes.UNITS = UNITS

====
